---- MODULE Spec2Model ----
(***************************************************************************)
(* ResoFly Mk-V: the track -> alert part of the detect/fuse/track/alert     *)
(* chain (backend/tracker.py, backend/alert_manager.py) and the sensor     *)
(* fusion engine (backend/fusion_engine.py), and the two threads of the     *)
(* pipeline that runs the chain (backend/fusion_pipeline.py), and the      *)
(* thermal hotspot detector (backend/thermal_detector.py).                 *)
(*                                                                         *)
(* Conventions.                                                            *)
(*  - Python lists are sequences; a Python index k is k+1 here.            *)
(*  - Tracker.objects is an OrderedDict whose keys are inserted in         *)
(*    increasing id order (register() is its only writer), so its          *)
(*    iteration order is ascending id: objects is a function on a set of   *)
(*    ids and IdSeq gives the iteration order.                             *)
(*  - Distances are compared squared: all centroids are integers, so       *)
(*    sqrt(a) > 60 iff a > 3600 and sqrt orders as its argument does.      *)
(*  - Tracker confidences are in percent (0.70 is 70).  In the fusion     *)
(*    engine confidences are in thousandths (0.701 is 701), the unit both  *)
(*    detectors round to, and round(_, 3) is the nearest thousandth; IoU    *)
(*    values are kept as the pair <<inter, union>> and compared by          *)
(*    cross-multiplication.                                                *)
(*  - first_seen / last_seen are written and never read; they are left out.*)
(*  - The pipeline is modelled from the attributes FusionPipeline.__init__  *)
(*    assigns, with the Tracker and AlertManager of tracker.py and          *)
(*    alert_manager.py behind it (the constructor passes Tracker the         *)
(*    keywords bbox_alpha and min_movement, which tracker.py does not take). *)
(*    Its two threads take one step per shared read or write of the raw      *)
(*    cache; what the processor does to a frame after that is one step,      *)
(*    since nothing else writes what it touches.                             *)
(*  - A raw frame is the number of the get_frame() call that returned it;    *)
(*    detect_interval, the thresholds and the cooldown are scaled down.      *)
(*  - A thermal frame is a function from its pixels <<x, y>> to their       *)
(*    intensities and a binary image is the set of its set pixels; means,   *)
(*    deviations, areas and ratios are compared as integers after           *)
(*    multiplying out their denominators.  The OpenCV calls of detect are    *)
(*    modelled by what they compute on such a frame.                        *)
(*  - Where the public operations of the pipeline are called from other   *)
(*    threads (SpecApi), the processor's work on a frame is split at the   *)
(*    points where it takes the encoded-frame lock, and t.join(timeout=3.0) *)
(*    is a step that is enabled whether or not the thread has exited.       *)
(*  - Where start() and stop() are called from other threads            *)
(*    (SpecThreads), every thread a start() call creates is followed, by    *)
(*    its position in its `while self._running` loop.                       *)
(***************************************************************************)
EXTENDS Integers, Sequences, FiniteSets, TLC

VARIABLES
    objects,            \* Tracker.objects : id -> TrackedObject
    next_id,            \* Tracker.next_id
    alert_history,      \* AlertManager._alert_history : id -> last alert time
    require_validation, \* AlertManager.require_validation ("NONE" for None)
    now,                \* the last value time.time() returned
    call,               \* the last operation run, with its arguments and result
    last_emit,          \* history variable: id -> time of its last alert
    seen,               \* history variable: the ids check_and_emit has met confirmed
    retired,            \* history variable: deregistered id -> its last centroid
    run,                \* history variable: the current run of single-detection frames
    empty_run,          \* history variable: consecutive empty frames, capped
    thermal_dets,       \* FusionEngine.fuse: first argument
    rgb_dets,           \* FusionEngine.fuse: second argument
    fused,              \* FusionEngine.fuse: result
    on_detection,       \* FusionPipeline.on_detection ("NONE" for None)
    running,            \* FusionPipeline._running
    reader,             \* the reader thread: "none", "alive" or "exited"
    rpc,                \* the reader thread's position in _camera_reader
    processor,          \* the processor thread: "none", "alive" or "exited"
    ppc,                \* the processor thread's position in _capture_loop
    raw_lock,           \* FusionPipeline._raw_lock: "free" or its holder
    source_frames,      \* the frames thermal_source.get_frame() has returned
    r_raw,              \* _camera_reader: the local raw
    latest_raw,         \* FusionPipeline._latest_raw
    raw_seq,            \* FusionPipeline._raw_seq
    p_raw,              \* _capture_loop: the local raw
    p_seq,              \* _capture_loop: the local seq
    last_processed_seq, \* FusionPipeline._last_processed_seq
    loop_frame,         \* FusionPipeline._loop_frame
    frame_number,       \* FusionPipeline.frame_number
    cached_tracked,     \* FusionPipeline._cached_tracked
    current_jpeg,       \* FusionPipeline._current_jpeg
    published,          \* history variable: the frames encoded so far
    escaped,            \* history variable: the threads a non-Exception was raised in
    gray,               \* ThermalDetector.detect: the grayscale frame, pixel -> intensity
    detect_out,         \* ThermalDetector.detect: what the call returned
    jpeg_lock,          \* FusionPipeline._jpeg_lock: "free" or its holder
    callers,            \* the threads calling public operations: their position
    p_jpeg,             \* _capture_loop: the encoded frame about to be written
    raced,              \* history variable: the threads whose chain met another's
    threads,            \* the threads start() has created: target and position
    reader_thread,      \* FusionPipeline._reader_thread: an index of threads
    capture_thread      \* FusionPipeline._capture_thread: an index of threads

vars == <<objects, next_id, alert_history, require_validation, now,
          call, last_emit, seen, retired, run, empty_run, thermal_dets, rgb_dets, fused,
          on_detection, running, reader, rpc, processor, ppc, raw_lock, source_frames,
          r_raw, latest_raw, raw_seq, p_raw, p_seq, last_processed_seq, loop_frame,
          frame_number, cached_tracked, current_jpeg, published, escaped,
          gray, detect_out, jpeg_lock, callers, p_jpeg, raced, threads,
          reader_thread, capture_thread>>

trackVars == <<objects, next_id, alert_history, require_validation, now,
               call, last_emit, seen, retired, run, empty_run>>
fuseVars == <<thermal_dets, rgb_dets, fused>>
pipeVars == <<on_detection, running, reader, rpc, processor, ppc, raw_lock,
              source_frames, r_raw, latest_raw, raw_seq, p_raw, p_seq,
              last_processed_seq, loop_frame, frame_number, cached_tracked,
              current_jpeg, published, escaped>>
detectVars == <<gray, detect_out>>
apiVars == <<jpeg_lock, callers, p_jpeg, raced>>
threadVars == <<threads, reader_thread, capture_thread>>

(***************************************************************************)
(* Parameters and bounds                                                   *)
(***************************************************************************)
\* Tracker(max_distance=60.0)
max_distance == 60
\* AlertManager(persistence_threshold=3)
persistence_threshold == 3
\* Tracker(max_disappeared=...), scaled down
max_disappeared == 1
\* AlertManager(cooldown_seconds=...), scaled down, in clock ticks
cooldown == 1
\* ids issued in one run
MaxId == 3
\* ids issued in one run of the tracker together with the alert manager
MaxAlertId == MaxId - 1
\* cap on persistence: tracks are followed two matches past confirmation
MaxPersistence == persistence_threshold + 2
\* the clock stops here: past the age at which _cleanup drops an entry
MaxTime == 2 * cooldown + 1
\* largest advance of the clock between two readings
MaxStep == 2
\* the frame numbers the caller passes
FrameNumbers == {10, 11}
None == "NONE"
\* FusionEngine(thermal_res=(80, 62), rgb_res=(640, 480), iou_threshold=0.3)
thermal_w == 80
thermal_h == 62
rgb_w == 640
rgb_h == 480
iou_threshold == <<3, 10>>
\* detections in one call of fuse: at most MaxThermal thermal, MaxRgb optical
MaxThermal == 2
MaxRgb == 2
\* boxes handed to _compute_iou alone: corner in 0..MaxCoord, sides in 0..MaxSide
MaxCoord == 2
MaxSide == 2
\* self._detect_interval (4 in the constructor)
detect_interval == 2
\* the frames the thermal source returns
MaxSeq == 6
\* the frames it returns while public operations are called from other threads
MaxApiFrames == 2
\* SCENE_TEMP_RANGE = (15.0, 45.0)
SCENE_TEMP_LO == 15
SCENE_TEMP_HI == 45
\* HUMAN_TEMP_MIN_C = 28.0
HUMAN_TEMP_MIN_C == 28
\* ThermalDetector(min_area=40), scaled down to the frames used
min_area == 2
\* ThermalDetector(max_area=5000)
max_area == 5000
\* ThermalDetector(blur_ksize=5)
blur_ksize == 5
\* ThermalDetector(std_multiplier=3.0)
std_multiplier == 3
\* ThermalDetector(min_temp_variance=5.0)
min_temp_variance == 5
\* the width and the height of a thermal frame (80 x 62 on the sensor)
FrameW == 10
FrameH == 8

(***************************************************************************)
(* Generic helpers                                                         *)
(***************************************************************************)
Max(a, b) == IF a >= b THEN a ELSE b
Min(a, b) == IF a <= b THEN a ELSE b

RECURSIVE SortedSeq(_)
SortedSeq(S) ==
    IF S = {} THEN <<>>
    ELSE LET m == CHOOSE x \in S : \A y \in S : x <= y
         IN  <<m>> \o SortedSeq(S \ {m})

\* list(self.objects.keys())
IdSeq(objs) == SortedSeq(DOMAIN objs)

(***************************************************************************)
(* tracker.py                                                              *)
(***************************************************************************)
\* a detection dict as the fusion stage hands it to the tracker
Detection(bbox, max_temp, confidence, validation_type) ==
    [bbox |-> bbox, max_temp |-> max_temp, confidence |-> confidence,
     validation_type |-> validation_type]

\* (int(x + w / 2), int(y + h / 2)) for non-negative integers
Centroid(bbox) == <<bbox[1] + (bbox[3] \div 2), bbox[2] + (bbox[4] \div 2)>>

\* the square of np.sqrt((oc[0]-ic[0])**2 + (oc[1]-ic[1])**2)
Dist2(oc, ic) == (oc[1] - ic[1]) * (oc[1] - ic[1]) + (oc[2] - ic[2]) * (oc[2] - ic[2])

\* TrackedObject.__init__
TrackedObject(object_id, centroid, bbox) ==
    [object_id |-> object_id, centroid |-> centroid, bbox |-> bbox,
     persistence |-> 1, disappeared |-> 0, max_temp |-> 0,
     alert_sent |-> FALSE, validation_type |-> "UNKNOWN", confidence |-> 0]

\* Tracker._enrich
Enrich(obj, detection) ==
    [obj EXCEPT !.max_temp = Max(obj.max_temp, detection.max_temp),
                !.confidence = detection.confidence,
                !.validation_type = detection.validation_type]

\* Tracker.register followed by _enrich: the object registered under object_id
Register(object_id, detection) ==
    Enrich(TrackedObject(object_id, Centroid(detection.bbox), detection.bbox),
           detection)

\* an unmatched track whose alert is also forgotten
MissedUnalerted(obj) == [obj EXCEPT !.disappeared = @ + 1, !.alert_sent = FALSE]

\* an unmatched track that also loses its persistence
MissedForgets(obj) == [obj EXCEPT !.disappeared = @ + 1, !.persistence = 0]

\* an unmatched track: disappeared += 1
Missed(obj) == [obj EXCEPT !.disappeared = @ + 1]

\* a deregistration one missed frame early
ExpiredEarly(obj) == obj.disappeared >= max_disappeared

\* disappeared > self.max_disappeared: the track is deregistered
Expired(obj) == obj.disappeared > max_disappeared

\* a match that leaves the disappeared counter as it was
MatchStale(obj, detection) ==
    Enrich([obj EXCEPT !.centroid = Centroid(detection.bbox),
                       !.bbox = detection.bbox,
                       !.persistence = @ + 1], detection)

\* the body of the greedy loop for a committed pair
Match(obj, detection) ==
    Enrich([obj EXCEPT !.centroid = Centroid(detection.bbox),
                       !.bbox = detection.bbox,
                       !.disappeared = 0,
                       !.persistence = @ + 1], detection)

\* one row of the distance matrix (squared): centroid oc against the input
\* centroids from detection j on
RECURSIVE DistRow(_, _, _)
DistRow(oc, dets, j) ==
    IF j > Len(dets) THEN <<>>
    ELSE <<Dist2(oc, Centroid(dets[j].bbox))>> \o DistRow(oc, dets, j + 1)

\* the distance matrix D (squared) from row i on: rows are the tracks in map
\* order, columns the detections
RECURSIVE DistMatrix(_, _, _, _)
DistMatrix(objs, ids, dets, i) ==
    IF i > Len(ids) THEN <<>>
    ELSE <<DistRow(objs[ids[i]].centroid, dets, 1)>> \o DistMatrix(objs, ids, dets, i + 1)

\* row.argmin() over the columns from j on, best being the first minimum so far
RECURSIVE ArgMinFrom(_, _, _)
ArgMinFrom(row, j, best) ==
    IF j > Len(row) THEN best
    ELSE ArgMinFrom(row, j + 1, IF row[j] < row[best] THEN j ELSE best)

\* D.argmin(axis=1)[i]: the first index of the row minimum
ArgMin(D, i) == ArgMinFrom(D[i], 2, 1)

\* D.min(axis=1)[i]
RowMin(D, i) == D[i][ArgMin(D, i)]

\* D.min(axis=1).argsort(): every order of the rows of S by ascending row
\* minimum (numpy's default sort promises no order among equal keys)
RECURSIVE ArgSorts(_, _)
ArgSorts(mins, S) ==
    IF S = {} THEN {<<>>}
    ELSE UNION {{<<r>> \o rest : rest \in ArgSorts(mins, S \ {r})} :
                  r \in {r \in S : \A q \in S : mins[r] <= mins[q]}}

\* a distance gate that also rejects a pair exactly max_distance apart
TooFarStrict(d2) == d2 >= max_distance * max_distance

\* no distance gate at all
TooFarNever(d2) == FALSE

\* D[row, col] > self.max_distance
TooFar(d2) == d2 > max_distance * max_distance

\* a guard that forgets the used columns
UsedRowOnly(row, col, used_rows, used_cols) == row \in used_rows

\* row in used_rows or col in used_cols
Used(row, col, used_rows, used_cols) == row \in used_rows \/ col \in used_cols

\* the greedy loop over zip(rows, cols) from position k on: the committed
\* <<row, col>> pairs
RECURSIVE Assign(_, _, _, _)
Assign(D, rows, k, pairs) ==
    IF k > Len(rows) THEN pairs
    ELSE LET row == rows[k]
             col == ArgMin(D, row)
         IN  IF \/ Used(row, col, {p[1] : p \in pairs}, {p[2] : p \in pairs})
                \/ TooFar(D[row][col])
             THEN Assign(D, rows, k + 1, pairs)
             ELSE Assign(D, rows, k + 1, pairs \cup {<<row, col>>})

\* the row minima of D from row i on
RECURSIVE RowMins(_, _)
RowMins(D, i) ==
    IF i > Len(D) THEN <<>> ELSE <<RowMin(D, i)>> \o RowMins(D, i + 1)

\* the orders argsort may return for this call (the empty order when the
\* matching branch is not taken)
RowOrders(objs, dets) ==
    IF Len(dets) = 0 \/ DOMAIN objs = {} THEN {<<>>}
    ELSE ArgSorts(RowMins(DistMatrix(objs, IdSeq(objs), dets, 1), 1),
                  1..Cardinality(DOMAIN objs))

\* register() forgetting self.next_id += 1
NextIdStuck(nid, n) == nid

\* self.next_id += 1, once for each of n registrations
NextIdAfter(nid, n) == nid + n

\* a registration that skips column 0
UnusedColsAfterFirst(dets, matches) == (DOMAIN dets \ {p[2] : p \in matches}) \ {1}

\* unused_cols = set(range(D.shape[1])) - used_cols: the detections in no
\* committed pair (every detection when no pair was sought)
UnusedCols(dets, matches) == DOMAIN dets \ {p[2] : p \in matches}

\* The state Tracker.update leaves, given the committed pairs as
\* <<object id, detection index>>: matched tracks take their detection,
\* the others are marked disappeared and deregistered past max_disappeared,
\* and the unused detections are registered in ascending index order under
\* next_id, next_id + 1, ...
Commit(objs, nid, dets, matches) ==
    LET matched == {p[1] : p \in matches}
        fresh   == SortedSeq(UnusedCols(dets, matches))
        kept    == {oid \in DOMAIN objs : oid \in matched \/ ~Expired(Missed(objs[oid]))}
        new     == {NextIdAfter(nid, k - 1) : k \in DOMAIN fresh}
    IN  [objects |->
            [oid \in kept \cup new |->
                IF oid \in new
                THEN Register(oid, dets[fresh[CHOOSE k \in DOMAIN fresh :
                                                 NextIdAfter(nid, k - 1) = oid]])
                ELSE IF oid \in matched
                THEN Match(objs[oid], dets[(CHOOSE p \in matches : p[1] = oid)[2]])
                ELSE Missed(objs[oid])],
         next_id |-> NextIdAfter(nid, Len(fresh)),
         matches |-> matches]

\* Tracker.update(detections), with rows the order argsort returned
Update(objs, nid, dets, rows) ==
    IF Len(dets) = 0 THEN
        \* no detections this frame
        Commit(objs, nid, dets, {})
    ELSE IF DOMAIN objs = {} THEN
        \* no existing objects: register all
        Commit(objs, nid, dets, {})
    ELSE
        LET ids == IdSeq(objs)
        IN  Commit(objs, nid, dets,
                   {<<ids[p[1]], p[2]>> :
                        p \in Assign(DistMatrix(objs, ids, dets, 1), rows, 1, {})})

(***************************************************************************)
(* alert_manager.py                                                        *)
(***************************************************************************)
\* self._alert_history.get(oid, 0)
HistoryGet(hist, oid) == IF oid \in DOMAIN hist THEN hist[oid] ELSE 0

\* a weakened check 1 that lets an object through one match early
NotPersistentEarly(obj) == obj.persistence < persistence_threshold - 1

\* check 1: obj.persistence < self.persistence_threshold
NotPersistent(obj) == obj.persistence < persistence_threshold

\* a weakened check 2 whose window closes one second early
InCooldownShort(obj, hist, t) ==
    obj.alert_sent /\ (t - HistoryGet(hist, obj.object_id)) < cooldown - 1

\* check 2: obj.alert_sent and (now - last) < self.cooldown
InCooldown(obj, hist, t) ==
    obj.alert_sent /\ (t - HistoryGet(hist, obj.object_id)) < cooldown

\* a check 3 that lets every object through
ValidationMismatchNever(obj, required) == FALSE

\* a check 3 that compares even when no validation type is required
ValidationMismatchAlways(obj, required) == obj.validation_type # required

\* check 3: self.require_validation and obj.validation_type != self.require_validation
ValidationMismatch(obj, required) ==
    required # None /\ obj.validation_type # required

\* AlertManager._format_payload
FormatPayload(obj, frame) ==
    [id |-> obj.object_id, type |-> "LIFEFORM_DETECTED",
     validation |-> obj.validation_type, max_temp |-> obj.max_temp,
     confidence |-> obj.confidence, persistence |-> obj.persistence,
     frame |-> frame]

\* a cleanup that drops the entries older than the cooldown
CleanupEarly(hist, t) ==
    [k \in {k \in DOMAIN hist : ~((t - hist[k]) > cooldown)} |-> hist[k]]

\* a cleanup that drops nothing
CleanupNever(hist, t) == hist

\* AlertManager._cleanup
Cleanup(hist, t) ==
    [k \in {k \in DOMAIN hist : ~((t - hist[k]) > cooldown * 2)} |-> hist[k]]

\* the loop of check_and_emit over the ids of todo, in order
RECURSIVE EmitLoop(_, _, _, _, _)
EmitLoop(st, todo, required, frame, t) ==
    IF todo = <<>> THEN st
    ELSE LET oid == Head(todo)
             obj == st.objects[oid]
         IN  IF \/ NotPersistent(obj)
                \/ InCooldown(obj, st.alert_history, t)
                \/ ValidationMismatch(obj, required)
             THEN EmitLoop(st, Tail(todo), required, frame, t)
             ELSE LET fired == [obj EXCEPT !.alert_sent = TRUE]
                  IN  EmitLoop(
                        [objects |-> [st.objects EXCEPT ![oid] = fired],
                         alert_history |->
                            [k \in DOMAIN st.alert_history \cup {oid} |->
                                IF k = oid THEN t ELSE st.alert_history[k]],
                         alerts |-> Append(st.alerts, FormatPayload(fired, frame))],
                        Tail(todo), required, frame, t)

\* AlertManager.check_and_emit(tracked_objects, frame_number) at clock reading t
CheckAndEmit(objs, hist, required, frame, t) ==
    LET done == EmitLoop([objects |-> objs, alert_history |-> hist, alerts |-> <<>>],
                         IdSeq(objs), required, frame, t)
    IN  [done EXCEPT !.alert_history = Cleanup(done.alert_history, t)]

(***************************************************************************)
(* fusion_engine.py                                                        *)
(***************************************************************************)
\* int(v * (to / from)) for a non-negative integer v: the scale factor is
\* the float to / from, and the truncated product is the integer quotient
ScaleCoord(v, to, from) == (v * to) \div from

\* FusionEngine.project_thermal_to_rgb
ProjectThermalToRgb(bbox) ==
    <<ScaleCoord(bbox[1], rgb_w, thermal_w), ScaleCoord(bbox[2], rgb_h, thermal_h),
      ScaleCoord(bbox[3], rgb_w, thermal_w), ScaleCoord(bbox[4], rgb_h, thermal_h)>>

\* an intersection over the first box's area instead of the union
ComputeIouOverA(box_a, box_b) ==
    LET ix    == Max(0, Min(box_a[1] + box_a[3], box_b[1] + box_b[3]) - Max(box_a[1], box_b[1]))
        iy    == Max(0, Min(box_a[2] + box_a[4], box_b[2] + box_b[4]) - Max(box_a[2], box_b[2]))
        inter == ix * iy
        area  == box_a[3] * box_a[4]
    IN  IF area > 0 THEN <<inter, area>> ELSE <<0, 1>>

\* an intersection over union that does not look at the union before dividing
ComputeIouUnguarded(box_a, box_b) ==
    LET ix    == Max(0, Min(box_a[1] + box_a[3], box_b[1] + box_b[3]) - Max(box_a[1], box_b[1]))
        iy    == Max(0, Min(box_a[2] + box_a[4], box_b[2] + box_b[4]) - Max(box_a[2], box_b[2]))
        inter == ix * iy
    IN  <<inter, box_a[3] * box_a[4] + box_b[3] * box_b[4] - inter>>

\* FusionEngine._compute_iou, as the fraction <<inter, union>>; 0.0 is <<0, 1>>
ComputeIou(box_a, box_b) ==
    LET ix    == Max(0, Min(box_a[1] + box_a[3], box_b[1] + box_b[3]) - Max(box_a[1], box_b[1]))
        iy    == Max(0, Min(box_a[2] + box_a[4], box_b[2] + box_b[4]) - Max(box_a[2], box_b[2]))
        inter == ix * iy
        union == box_a[3] * box_a[4] + box_b[3] * box_b[4] - inter
    IN  IF union > 0 THEN <<inter, union>> ELSE <<0, 1>>

\* iou > best_iou, on fractions with positive denominators
IouGreater(iou, best_iou) == iou[1] * best_iou[2] > best_iou[1] * iou[2]

\* best_iou >= self.iou_threshold
IouAtLeast(best_iou, threshold) == best_iou[1] * threshold[2] >= threshold[1] * best_iou[2]

\* a pass 1 that compares with every optical detection, used or not
InUsedRgbNever(j, used_rgb) == FALSE

\* pass 1: j in used_rgb
InUsedRgb(j, used_rgb) == j \in used_rgb

\* a pass 2 that emits every optical detection, used or not
LeftOverAll(j, used_rgb) == TRUE

\* pass 2: not (j in used_rgb)
LeftOver(j, used_rgb) == j \notin used_rgb

\* the inner loop of pass 1 from optical detection j on: the best IoU and the
\* index holding it (0 when none)
RECURSIVE BestMatch(_, _, _, _, _)
BestMatch(projected, rgb, used_rgb, j, best) ==
    IF j > Len(rgb) THEN best
    ELSE IF InUsedRgb(j, used_rgb) THEN BestMatch(projected, rgb, used_rgb, j + 1, best)
    ELSE LET iou == ComputeIou(projected, rgb[j].bbox)
         IN  IF IouGreater(iou, best.iou)
             THEN BestMatch(projected, rgb, used_rgb, j + 1, [iou |-> iou, idx |-> j])
             ELSE BestMatch(projected, rgb, used_rgb, j + 1, best)

\* round(n / d, 3) of a value of n / d thousandths, in thousandths: the
\* nearest thousandth (the inputs used never fall halfway between two)
Round3(n, d) == (2 * n + d) \div (2 * d)

\* a merge that gives the optical confidence the larger weight
FusedEntrySwapped(td, rd, projected) ==
    [bbox |-> projected, centroid |-> td.centroid, max_temp |-> td.max_temp,
     confidence |-> Round3(4 * td.confidence + 6 * rd.confidence, 10),
     validation_type |-> "FUSED_VALIDATED",
     thermal_bbox |-> td.bbox, rgb_bbox |-> rd.bbox]

\* the FUSED_VALIDATED entry: round(td * 0.6 + rd * 0.4, 3)
FusedEntry(td, rd, projected) ==
    [bbox |-> projected, centroid |-> td.centroid, max_temp |-> td.max_temp,
     confidence |-> Round3(6 * td.confidence + 4 * rd.confidence, 10),
     validation_type |-> "FUSED_VALIDATED",
     thermal_bbox |-> td.bbox, rgb_bbox |-> rd.bbox]

\* the THERMAL_ONLY entry: round(td * 0.7, 3)
ThermalOnlyEntry(td, projected) ==
    [bbox |-> projected, centroid |-> td.centroid, max_temp |-> td.max_temp,
     confidence |-> Round3(7 * td.confidence, 10),
     validation_type |-> "THERMAL_ONLY", thermal_bbox |-> td.bbox]

\* the RGB_ONLY entry: round(rd * 0.5, 3)
RgbOnlyEntry(rd) ==
    [bbox |-> rd.bbox, centroid |-> Centroid(rd.bbox), max_temp |-> 0,
     confidence |-> Round3(5 * rd.confidence, 10),
     validation_type |-> "RGB_ONLY", rgb_bbox |-> rd.bbox]

\* pass 1 from thermal detection i on; st holds fused, used_rgb and, for each
\* thermal detection handled, the optical index it was paired with (0: none)
RECURSIVE Pass1(_, _, _, _)
Pass1(thermal, rgb, i, st) ==
    IF i > Len(thermal) THEN st
    ELSE LET td        == thermal[i]
             projected == ProjectThermalToRgb(td.bbox)
             best      == BestMatch(projected, rgb, st.used_rgb, 1,
                                    [iou |-> <<0, 1>>, idx |-> 0])
         IN  IF IouAtLeast(best.iou, iou_threshold) /\ best.idx >= 1
             THEN Pass1(thermal, rgb, i + 1,
                        [fused    |-> Append(st.fused, FusedEntry(td, rgb[best.idx], projected)),
                         used_rgb |-> st.used_rgb \cup {best.idx},
                         paired   |-> Append(st.paired, best.idx)])
             ELSE Pass1(thermal, rgb, i + 1,
                        [fused    |-> Append(st.fused, ThermalOnlyEntry(td, projected)),
                         used_rgb |-> st.used_rgb,
                         paired   |-> Append(st.paired, 0)])

\* pass 2 from optical detection j on
RECURSIVE Pass2(_, _, _)
Pass2(rgb, j, st) ==
    IF j > Len(rgb) THEN st
    ELSE IF LeftOver(j, st.used_rgb)
    THEN Pass2(rgb, j + 1, [st EXCEPT !.fused = Append(@, RgbOnlyEntry(rgb[j]))])
    ELSE Pass2(rgb, j + 1, st)

\* FusionEngine.fuse(thermal_dets, rgb_dets): the list returned, with the
\* final used_rgb and the pairing made in pass 1
Fuse(thermal, rgb) ==
    Pass2(rgb, 1, Pass1(thermal, rgb, 1, [fused |-> <<>>, used_rgb |-> {}, paired |-> <<>>]))

(***************************************************************************)
(* thermal_detector.py                                                     *)
(***************************************************************************)
\* the pixels <<x, y>> of a frame, x the column and y the row
Pixels == {<<x, y>> : x \in 0..(FrameW - 1), y \in 0..(FrameH - 1)}

\* the sum of t[1] .. t[n]
RECURSIVE SumTo(_, _)
SumTo(t, n) == IF n = 0 THEN 0 ELSE t[n] + SumTo(t, n - 1)

\* the sum of img[p] over the pixels p of S that come at or after the k-th
\* pixel of the frame, row by row
RECURSIVE SumFrom(_, _, _)
SumFrom(img, S, k) ==
    IF k >= FrameW * FrameH THEN 0
    ELSE LET p == <<k % FrameW, k \div FrameW>>
         IN  (IF p \in S THEN img[p] ELSE 0) + SumFrom(img, S, k + 1)

\* the sum of img[p] over the pixels p of S
SumOver(img, S) == SumFrom(img, S, 0)

\* the largest r in lo..hi with r * r <= n
RECURSIVE IsqrtIn(_, _, _)
IsqrtIn(n, lo, hi) ==
    IF lo = hi THEN lo
    ELSE LET mid == (lo + hi + 1) \div 2
         IN  IF mid * mid <= n THEN IsqrtIn(n, mid, hi) ELSE IsqrtIn(n, lo, mid - 1)

\* the integer part of the square root of n
Isqrt(n) == IsqrtIn(n, 0, 46340)

RECURSIVE Gcd(_, _)
Gcd(a, b) == IF b = 0 THEN a ELSE Gcd(b, a % b)

\* the least common multiple of 1 .. n
RECURSIVE LcmTo(_)
LcmTo(n) == IF n <= 1 THEN 1 ELSE LET l == LcmTo(n - 1) IN (l * n) \div Gcd(l, n)

\* intensity_to_temp(val), in 255ths of a degree
intensity_to_temp(val) == 255 * SCENE_TEMP_LO + val * (SCENE_TEMP_HI - SCENE_TEMP_LO)

\* temp_to_intensity(temp): int(np.clip((temp - lo) / (hi - lo) * 255, 0, 255))
temp_to_intensity(temp) ==
    Min(Max(((temp - SCENE_TEMP_LO) * 255) \div (SCENE_TEMP_HI - SCENE_TEMP_LO), 0), 255)

HUMAN_INTENSITY_FLOOR == temp_to_intensity(HUMAN_TEMP_MIN_C)

\* the border rule of cv2.GaussianBlur (BORDER_REFLECT_101) on an axis of n
Reflect101(i, n) == IF i < 0 THEN 0 - i ELSE IF i >= n THEN 2 * (n - 1) - i ELSE i

\* the kernel of cv2.GaussianBlur for ksize 5 and sigma 0, in 16ths
GaussianKernel == <<1, 4, 6, 4, 1>>

\* cv2.GaussianBlur(gray, (blur_ksize, blur_ksize), 0): the kernel along the
\* rows, then along the columns, rounded to the nearest intensity
GaussianBlur(img) ==
    LET r    == blur_ksize \div 2
        rows == [p \in Pixels |->
                    SumTo([d \in 1..blur_ksize |->
                              GaussianKernel[d] * img[<<Reflect101(p[1] + d - 1 - r, FrameW), p[2]>>]],
                          blur_ksize)] @@ <<>>
        cols == [p \in Pixels |->
                    SumTo([d \in 1..blur_ksize |->
                              GaussianKernel[d] * rows[<<p[1], Reflect101(p[2] + d - 1 - r, FrameH)>>]],
                          blur_ksize)] @@ <<>>
    IN  [p \in Pixels |-> (cols[p] + 128) \div 256] @@ <<>>

\* int(thresh) of step 2: mean + std_multiplier * std of the blurred frame,
\* raised to HUMAN_INTENSITY_FLOOR and cut at 245.  With n pixels of sum s
\* and sum of squares q, mean = s / n and std = sqrt(n * q - s * s) / n.
Thresh(blurred) ==
    LET n == Cardinality(Pixels)
        s == SumOver(blurred, Pixels)
        q == SumOver([p \in Pixels |-> blurred[p] * blurred[p]], Pixels)
        t == (s + Isqrt(std_multiplier * std_multiplier * (n * q - s * s))) \div n
    IN  Min(Max(t, HUMAN_INTENSITY_FLOOR), 245)

\* cv2.threshold(blurred, int(thresh), 255, cv2.THRESH_BINARY): the pixel is
\* set when it is above the threshold
Above(v, t) == v > t

\* the binary image, as the set of its set pixels
Threshold(blurred, t) == {p \in Pixels : Above(blurred[p], t)}

\* cv2.getStructuringElement(cv2.MORPH_ELLIPSE, (3, 3)), as offsets
morph_kernel_open == {<<0, 0>>, <<1, 0>>, <<0 - 1, 0>>, <<0, 1>>, <<0, 0 - 1>>}

\* cv2.getStructuringElement(cv2.MORPH_ELLIPSE, (5, 5)), as offsets
morph_kernel_close ==
    {<<dx, dy>> : dx \in (0 - 2)..2, dy \in (0 - 1)..1} \cup {<<0, 2>>, <<0, 0 - 2>>}

\* cv2.erode: a pixel stays set when the kernel around it meets no unset
\* pixel of the frame (pixels beyond the border do not count)
Erode(mask, kernel) ==
    {p \in mask : \A d \in kernel :
        <<p[1] + d[1], p[2] + d[2]>> \in Pixels => <<p[1] + d[1], p[2] + d[2]>> \in mask}

\* cv2.dilate: a pixel is set when the kernel around it meets a set pixel
Dilate(mask, kernel) ==
    {p \in Pixels : \E d \in kernel : <<p[1] + d[1], p[2] + d[2]>> \in mask}

\* cv2.morphologyEx(binary, cv2.MORPH_OPEN, kernel)
MorphOpen(mask, kernel) == Dilate(Erode(mask, kernel), kernel)

\* cv2.morphologyEx(binary, cv2.MORPH_CLOSE, kernel)
MorphClose(mask, kernel) == Erode(Dilate(mask, kernel), kernel)

\* p and q touch, diagonals included
Touch8(p, q) ==
    /\ p[1] - q[1] \in (0 - 1)..1
    /\ p[2] - q[2] \in (0 - 1)..1

\* p and q share a side
Touch4(p, q) ==
    \/ p[1] = q[1] /\ p[2] - q[2] \in {0 - 1, 1}
    \/ p[2] = q[2] /\ p[1] - q[1] \in {0 - 1, 1}

\* the pixels of mask joined to comp through neighbours that touch
RECURSIVE Grow8(_, _)
Grow8(comp, mask) ==
    LET more == {q \in mask \ comp : \E p \in comp : Touch8(p, q)}
    IN  IF more = {} THEN comp ELSE Grow8(comp \cup more, mask)

\* the pixels of mask joined to comp through neighbours that share a side
RECURSIVE Grow4(_, _)
Grow4(comp, mask) ==
    LET more == {q \in mask \ comp : \E p \in comp : Touch4(p, q)}
    IN  IF more = {} THEN comp ELSE Grow4(comp \cup more, mask)

\* the first pixel of a mask, row by row
FirstPixel(mask) ==
    CHOOSE p \in mask : \A q \in mask : p[2] < q[2] \/ (p[2] = q[2] /\ p[1] <= q[1])

\* cv2.findContours(binary, cv2.RETR_EXTERNAL, cv2.CHAIN_APPROX_SIMPLE): one
\* contour for each group of set pixels that touch, here in the order of
\* their first pixels (a group lying in a hole of another group is kept,
\* which can only add detections)
RECURSIVE FindContours(_)
FindContours(mask) ==
    IF mask = {} THEN <<>>
    ELSE LET cnt == Grow8({FirstPixel(mask)}, mask)
         IN  <<cnt>> \o FindContours(mask \ cnt)

\* the pixels the outer border of cnt goes around: cnt and its holes
Enclosed(cnt) ==
    LET free   == Pixels \ cnt
        border == {p \in free : p[1] \in {0, FrameW - 1} \/ p[2] \in {0, FrameH - 1}}
    IN  Pixels \ Grow4(border, free)

\* cv2.contourArea(cnt), doubled: the outer border runs through the centres
\* of the border pixels, so it encloses every square of four neighbouring
\* pixels it goes around and half of every square it cuts at a corner
ContourArea2(cnt) ==
    LET inside == Enclosed(cnt)
        corners(x, y) ==
            Cardinality({<<x, y>>, <<x + 1, y>>, <<x, y + 1>>, <<x + 1, y + 1>>} \cap inside)
        cells == {<<x, y>> : x \in 0..(FrameW - 2), y \in 0..(FrameH - 2)}
    IN  2 * Cardinality({c \in cells : corners(c[1], c[2]) = 4})
          + Cardinality({c \in cells : corners(c[1], c[2]) = 3})

\* the denominator the sides of a hull are measured in
HullScale == LcmTo(FrameH)

\* cv2.contourArea(cv2.convexHull(cnt)), doubled and in HullScale-ths: the
\* hull is cut into the strips between neighbouring rows, and its width at
\* a row is taken between the chords of the contour's pixels that cross it
HullArea2(cnt) ==
    LET ys == {p[2] : p \in cnt}
        lo == CHOOSE y \in ys : \A z \in ys : y <= z
        hi == CHOOSE y \in ys : \A z \in ys : y >= z
        at(p, q, y) ==
            IF p[2] = q[2] THEN HullScale * p[1]
            ELSE HullScale * p[1] + (q[1] - p[1]) * (y - p[2]) * (HullScale \div (q[2] - p[2]))
        chords(y) == {at(p, q, y) : p \in {c \in cnt : c[2] <= y},
                                    q \in {c \in cnt : c[2] >= y}}
        width == [y \in lo..hi |->
                    LET xs == chords(y)
                    IN  (CHOOSE x \in xs : \A z \in xs : x >= z)
                            - (CHOOSE x \in xs : \A z \in xs : x <= z)] @@ <<>>
    IN  SumTo([k \in 1..(hi - lo) |-> width[lo + k - 1] + width[lo + k]], hi - lo)

\* cv2.boundingRect(hull): (x, y, w, h)
BoundingRect(cnt) ==
    LET xs == {p[1] : p \in cnt}
        ys == {p[2] : p \in cnt}
        x0 == CHOOSE x \in xs : \A z \in xs : x <= z
        x1 == CHOOSE x \in xs : \A z \in xs : x >= z
        y0 == CHOOSE y \in ys : \A z \in ys : y <= z
        y1 == CHOOSE y \in ys : \A z \in ys : y >= z
    IN  <<x0, y0, x1 - x0 + 1, y1 - y0 + 1>>

\* roi = gray[y: y + h, x: x + w]
Roi(rect) ==
    {p \in Pixels : /\ rect[1] <= p[1] /\ p[1] < rect[1] + rect[3]
                   /\ rect[2] <= p[2] /\ p[2] < rect[2] + rect[4]}

\* np.std(roi) ** 2, times the square of the number of pixels of the roi
RoiVariance(img, roi) ==
    LET n == Cardinality(roi)
        s == SumOver(img, roi)
        q == SumOver([p \in roi |-> img[p] * img[p]], roi)
    IN  n * q - s * s

\* np.max(roi)
RoiMax(img, roi) == CHOOSE v \in {img[p] : p \in roi} : \A p \in roi : img[p] <= v

\* area < self.min_area or area > self.max_area
AreaOutOfRange(area2) == area2 < 2 * min_area \/ area2 > 2 * max_area

\* solidity < self.min_solidity (0.3), with solidity = area / hull_area if
\* hull_area > 0 else 0
LowSolidity(area2, hull2) ==
    IF hull2 > 0 THEN 10 * area2 * HullScale < 3 * hull2 ELSE TRUE

\* ar > 4.0 or ar < 0.25, with ar = w / h if h > 0 else 0
BadAspect(w, h) == IF h > 0 THEN w > 4 * h \/ 4 * w < h ELSE TRUE

\* a variance check that rejects nothing
LowVarianceNever(variance, n) == FALSE

\* roi_std < self.min_temp_variance
LowVariance(variance, n) == variance < min_temp_variance * min_temp_variance * n * n

\* max_temp < HUMAN_TEMP_MIN_C
TooCold(max_val) == intensity_to_temp(max_val) < 255 * HUMAN_TEMP_MIN_C

\* conf, in thousandths, to the thousandth below: norm_temp * 0.4 +
\* norm_area * 0.25 + solidity * 0.2 + norm_var * 0.15, clipped to 0.05 .. 0.99
Confidence(max_val, area2, hull2, variance, n) ==
    LET temp_dev  == intensity_to_temp(max_val) - 255 * HUMAN_TEMP_MIN_C
        norm_temp == Min(1000, (temp_dev * 100) \div 255)
        norm_area == Min(1000, (area2 * 1000) \div 600)
        solidity  == (area2 * HullScale * 1000) \div hull2
        norm_var  == Min(1000, (Isqrt(variance) * 1000) \div (30 * n))
        conf      == (norm_temp * 400 + norm_area * 250 + solidity * 200
                        + norm_var * 150) \div 1000
    IN  Min(Max(conf, 50), 990)

\* the body of the loop over the contours: the detection of a contour, or
\* no detection when a check rejects it
ContourDetections(img, cnt) ==
    LET area2    == ContourArea2(cnt)
        hull2    == HullArea2(cnt)
        rect     == BoundingRect(cnt)
        roi      == Roi(rect)
        n        == Cardinality(roi)
        variance == RoiVariance(img, roi)
        max_val  == RoiMax(img, roi)
    IN  IF AreaOutOfRange(area2) THEN <<>>
        ELSE IF LowSolidity(area2, hull2) THEN <<>>
        ELSE IF BadAspect(rect[3], rect[4]) THEN <<>>
        ELSE IF n = 0 THEN <<>>
        ELSE IF LowVariance(variance, n) THEN <<>>
        ELSE IF TooCold(max_val) THEN <<>>
        ELSE << [bbox       |-> rect,
                 centroid   |-> <<rect[1] + rect[3] \div 2, rect[2] + rect[4] \div 2>>,
                 max_temp   |-> (2 * 10 * intensity_to_temp(max_val) + 255) \div (2 * 255),
                 area       |-> area2,
                 confidence |-> Confidence(max_val, area2, hull2, variance, n)] >>

\* the detections of the contours from the k-th on
RECURSIVE DetectLoop(_, _, _)
DetectLoop(img, contours, k) ==
    IF k > Len(contours) THEN <<>>
    ELSE ContourDetections(img, contours[k]) \o DetectLoop(img, contours, k + 1)

\* d put into a list sorted by confidence, largest first, behind the
\* detections of the same confidence
RECURSIVE InsertByConfidence(_, _)
InsertByConfidence(d, sorted) ==
    IF sorted = <<>> THEN <<d>>
    ELSE IF Head(sorted).confidence >= d.confidence
         THEN <<Head(sorted)>> \o InsertByConfidence(d, Tail(sorted))
         ELSE <<d>> \o sorted

\* detections.sort(key=lambda d: d["confidence"], reverse=True)
RECURSIVE SortByConfidence(_)
SortByConfidence(dets) ==
    IF dets = <<>> THEN <<>>
    ELSE InsertByConfidence(dets[Len(dets)], SortByConfidence(SubSeq(dets, 1, Len(dets) - 1)))

\* ThermalDetector.detect(frame) on a grayscale frame: the detections, the
\* binary mask returned with them, and the threshold and the pixels above
\* it before the clean-up
Detect(img) ==
    LET blurred == GaussianBlur(img)
        t       == Thresh(blurred)
        above   == Threshold(blurred, t)
        binary  == MorphClose(MorphOpen(above, morph_kernel_open), morph_kernel_close)
    IN  [detections |-> SortByConfidence(DetectLoop(img, FindContours(binary), 1)),
         binary     |-> binary,
         thresh     |-> t,
         above      |-> above]

\* detect has not been called
NotDetected == [called |-> FALSE, detections |-> <<>>, binary |-> {}, thresh |-> 0,
                above |-> {}]

\* no frame is given to the detector
InitDetectIdle == gray = <<>> /\ detect_out = NotDetected

(***************************************************************************)
(* The tracker and the alert manager driven by a caller                    *)
(***************************************************************************)
\* the detections the frames are made of
DetA == Detection(<<40, 40, 20, 20>>, 30, 70, "THERMAL_ONLY")      \* centroid (50,50)
DetB == Detection(<<42, 41, 21, 21>>, 36, 66, "FUSED_VALIDATED")   \* centroid (52,51)
DetC == Detection(<<100, 40, 20, 20>>, 30, 70, "THERMAL_ONLY")     \* centroid (110,50)
DetD == Detection(<<190, 190, 20, 20>>, 30, 70, "THERMAL_ONLY")    \* centroid (200,200)
DetE == Detection(<<490, 490, 20, 20>>, 30, 70, "THERMAL_ONLY")    \* centroid (500,500)

\* the frames the tracker is fed: empty, single detections drifting within
\* and up to exactly max_distance, pairs that are near, far, competing for
\* one track, and equal
Frames ==
    { <<>>, <<DetA>>, <<DetC>>, <<DetA, DetD>>, <<DetB, DetE>>,
      <<DetB, DetC>>, <<DetA, DetA>> }

\* the frames the alert manager's tracker is fed: one neighbourhood with both
\* validation types, and a second object far away
AlertFrames == { <<>>, <<DetA>>, <<DetB>>, <<DetA, DetD>> }

\* no run of single-detection frames is under way
NoRun == [len |-> 0, id |-> 0, from |-> <<0, 0>>, at |-> <<0, 0>>]

\* The run after a frame: a run starts when one detection is fed to a tracker
\* with no tracks, goes on while each frame holds one detection whose
\* centroid is at most max_distance from the previous frame's, and ends with
\* any other frame.
RunAfter(dets) ==
    IF Len(dets) # 1 THEN NoRun
    ELSE LET c == Centroid(dets[1].bbox)
         IN  IF run.len > 0 /\ Dist2(run.at, c) <= max_distance * max_distance
             THEN [run EXCEPT !.len = @ + 1, !.at = c]
             ELSE IF DOMAIN objects = {}
             THEN [len |-> 1, id |-> next_id, from |-> c, at |-> c]
             ELSE NoRun

InitTrack ==
    /\ objects = <<>>
    /\ next_id = 0
    /\ alert_history = <<>>
    /\ now = 0
    /\ call = [op |-> "init"]
    /\ last_emit = <<>>
    /\ seen = {}
    /\ retired = <<>>
    /\ run = NoRun
    /\ empty_run = 0

InitFuseIdle ==
    /\ thermal_dets = <<>>
    /\ rgb_dets = <<>>
    /\ fused = <<>>

\* a frame of the thermal source is the number of the get_frame() call that
\* returned it, counted from 1; no frame (None) is 0
NoFrame == 0

\* self._reader_thread / self._capture_thread holding None
NoThread == 0

\* the display frame _process_with_frame returns after an exception (None)
NoDisplay == [raw |-> NoFrame, boxes |-> {}, frame_number |-> 0]

\* self._current_jpeg after the constructor (None)
NoJpeg == [jpeg |-> "NONE", of |-> NoDisplay]

\* self._placeholder_jpeg: the "waiting for sensor data" image
placeholder_jpeg == [jpeg |-> "PLACEHOLDER", of |-> NoDisplay]

\* no DetectionEvent was built
NoEvent == [hotspots |-> <<>>, frame_number |-> 0, total_count |-> 0]

\* no frame has gone through the processor: `ever` says that a frame was
\* encoded, `last` is what the last frame that reached the write of
\* _current_jpeg had to write ("none", "frame" or "placeholder"), `raw` is the
\* raw frame of the last encoding
NothingPublished == [ever |-> FALSE, last |-> "none", raw |-> NoFrame]

\* the threads that call get_jpeg(), process_next() and stop()
Callers == {"caller1", "caller2"}

\* a caller between two calls
Idle == [pc |-> "idle", raw |-> NoFrame]

\* FusionPipeline.__init__: the attributes the two threads work on
PipeConstructed ==
    /\ running = FALSE
    /\ reader = "none" /\ rpc = "head"
    /\ processor = "none" /\ ppc = "head"
    /\ raw_lock = "free"
    /\ source_frames = 0
    /\ r_raw = NoFrame
    /\ latest_raw = NoFrame
    /\ raw_seq = 0
    /\ p_raw = NoFrame /\ p_seq = 0
    /\ last_processed_seq = 0
    /\ loop_frame = 0
    /\ frame_number = 0
    /\ cached_tracked = <<>>
    /\ current_jpeg = NoJpeg
    /\ published = NothingPublished
    /\ escaped = {}
    /\ jpeg_lock = "free"
    /\ callers = [c \in Callers |-> Idle]
    /\ p_jpeg = NoJpeg
    /\ raced = {}
    /\ threads = <<>>
    /\ reader_thread = NoThread
    /\ capture_thread = NoThread

\* no pipeline is started
InitPipeIdle == PipeConstructed /\ on_detection = None

\* tracker.update(dets)
TrackerUpdate(dets) ==
    /\ \E rows \in RowOrders(objects, dets) :
       \E r \in {Update(objects, next_id, dets, rows)} :
             /\ r.next_id <= MaxId
             /\ \A oid \in DOMAIN r.objects : r.objects[oid].persistence <= MaxPersistence
             /\ objects' = r.objects
             /\ next_id' = r.next_id
             /\ call' = [op |-> "update", detections |-> dets, matches |-> r.matches]
    /\ UNCHANGED <<alert_history, require_validation, now, last_emit, seen>>

\* the history of the tracker kept along an update
TrackerHistory(dets) ==
    /\ retired' = [oid \in DOMAIN retired \cup (DOMAIN objects \ DOMAIN objects') |->
                      IF oid \in DOMAIN objects THEN objects[oid].centroid
                      ELSE retired[oid]]
    /\ run' = RunAfter(dets)
    /\ empty_run' = IF dets = <<>> THEN Min(empty_run + 1, max_disappeared + 1) ELSE 0

\* the history of the tracker is not followed
NoTrackerHistory == UNCHANGED <<retired, run, empty_run>>

\* alert_mgr.check_and_emit(tracker.objects, frame); time.time() has advanced
\* by dt since it was last read.  call keeps the batch returned and the two
\* history variables, and _alert_history, as they were before the call.
AlertCheck(frame, dt) ==
    \E r \in {CheckAndEmit(objects, alert_history, require_validation, frame, now + dt)} :
        /\ now + dt <= MaxTime
        /\ now' = now + dt
        /\ objects' = r.objects
        /\ alert_history' = r.alert_history
        /\ call' = [op |-> "check_and_emit", alerts |-> r.alerts,
                    prev_emit |-> last_emit, prev_seen |-> seen,
                    prev_history |-> alert_history]
        /\ seen' = seen \cup {oid \in DOMAIN objects : ~NotPersistent(objects[oid])}
        /\ last_emit' = [k \in DOMAIN last_emit \cup {r.alerts[i].id : i \in DOMAIN r.alerts} |->
                           IF \E i \in DOMAIN r.alerts : r.alerts[i].id = k
                           THEN now + dt ELSE last_emit[k]]
        /\ UNCHANGED <<next_id, require_validation, retired, run, empty_run>>

\* the tracker alone, each track followed up to its confirmation
NextTrack ==
    (\E dets \in Frames :
        /\ TrackerUpdate(dets) /\ TrackerHistory(dets)
        /\ \A oid \in DOMAIN objects' : objects'[oid].persistence <= persistence_threshold)
        /\ UNCHANGED <<fuseVars, detectVars, pipeVars, apiVars, threadVars>>

\* Tracker() alone: no alert manager configuration matters
InitTrackOnly ==
    /\ InitTrack /\ require_validation = None /\ InitFuseIdle /\ InitPipeIdle
    /\ InitDetectIdle

SpecTrack == InitTrackOnly /\ [][NextTrack]_vars

\* the tracker feeding the alert manager
NextAlert ==
    \/ (\E dets \in AlertFrames : TrackerUpdate(dets))
            /\ next_id' <= MaxAlertId
            /\ NoTrackerHistory /\ UNCHANGED <<fuseVars, detectVars, pipeVars, apiVars, threadVars>>
    \/ (\E frame \in FrameNumbers, dt \in 0..MaxStep : AlertCheck(frame, dt))
            /\ UNCHANGED <<fuseVars, detectVars, pipeVars, apiVars, threadVars>>

\* Tracker() and AlertManager(require_validation=None or "FUSED_VALIDATED")
InitAlert ==
    /\ InitTrack /\ require_validation \in {None, "FUSED_VALIDATED"}
    /\ InitFuseIdle /\ InitPipeIdle /\ InitDetectIdle

SpecAlert == InitAlert /\ [][NextAlert]_vars

(***************************************************************************)
(* The fusion engine called on a frame's detections                        *)
(***************************************************************************)
\* a thermal detection as ThermalDetector.detect() returns it
ThermalDet(bbox, max_temp, confidence) ==
    [bbox |-> bbox, centroid |-> Centroid(bbox), max_temp |-> max_temp,
     confidence |-> confidence]

\* an optical detection as RGBDetector.detect() returns it
RgbDet(bbox, confidence) == [bbox |-> bbox, confidence |-> confidence]

\* thermal hotspots: H1 projects to (80,77,160,154); H2 overlaps H1 and
\* projects to (160,77,160,154); H3 is far from both; H4 has no area and
\* projects to (80,77,0,0)
ThermalInputs ==
    { ThermalDet(<<10, 10, 20, 20>>, 32, 700),
      ThermalDet(<<20, 10, 20, 20>>, 35, 801),
      ThermalDet(<<60, 40, 10, 10>>, 29, 500),
      ThermalDet(<<10, 10, 0, 0>>, 30, 600) }

\* optical detections: the projection of H1 itself (IoU 1); a box inside it
\* of IoU exactly 3/10 and one just below; a box over the overlap of H1 and
\* H2; a box that meets no projection; a box of no area at the corner of
\* the projections of H1 and H4
RgbInputs ==
    { RgbDet(<<80, 77, 160, 154>>, 600),
      RgbDet(<<80, 77, 48, 154>>, 900),
      RgbDet(<<80, 77, 47, 154>>, 900),
      RgbDet(<<120, 77, 160, 154>>, 402),
      RgbDet(<<600, 10, 30, 30>>, 552),
      RgbDet(<<80, 77, 0, 0>>, 300) }

\* the sequences over S of length at most n
SeqsUpTo(S, n) == UNION {[1..k -> S] : k \in 0..n}

\* the detections of one frame, before fuse is called on them
InitFuse ==
    /\ thermal_dets \in SeqsUpTo(ThermalInputs, MaxThermal)
    /\ rgb_dets \in SeqsUpTo(RgbInputs, MaxRgb)
    /\ fused = <<>>

\* fused = fusion.fuse(thermal_dets, rgb_dets); call keeps the final used_rgb
\* and the pairing made in pass 1
FuseCall ==
    \E r \in {Fuse(thermal_dets, rgb_dets)} :
        /\ call.op = "init"
        /\ fused' = r.fused
        /\ call' = [op |-> "fuse", used_rgb |-> r.used_rgb, paired |-> r.paired]
        /\ UNCHANGED <<objects, next_id, alert_history, require_validation, now,
                       last_emit, seen, retired, run, empty_run, thermal_dets, rgb_dets,
                       pipeVars, detectVars, apiVars, threadVars>>

\* the fusion engine alone
NextFuse == FuseCall

\* FusionEngine() about to be called on a frame's detections
InitFuseOnly ==
    /\ InitTrack /\ require_validation = None /\ InitFuse /\ InitPipeIdle
    /\ InitDetectIdle

SpecFuse == InitFuseOnly /\ [][NextFuse]_vars

(***************************************************************************)
(* fusion_pipeline.py: the detections _process_with_frame hands on         *)
(***************************************************************************)
\* the optical detections of a frame: the optical camera is read only when
\* the thermal detector has found something
RgbDetections(thermal, rgb) == IF thermal # <<>> THEN rgb ELSE <<>>

\* a fused detection scaled back from optical to display coordinates, the
\* display resolution being the one set_resolutions was given as thermal_res
ScaleBack(d) ==
    [d EXCEPT !.bbox = <<ScaleCoord(d.bbox[1], thermal_w, rgb_w),
                         ScaleCoord(d.bbox[2], thermal_h, rgb_h),
                         ScaleCoord(d.bbox[3], thermal_w, rgb_w),
                         ScaleCoord(d.bbox[4], thermal_h, rgb_h)>>,
              !.centroid = <<ScaleCoord(d.centroid[1], thermal_w, rgb_w),
                             ScaleCoord(d.centroid[2], thermal_h, rgb_h)>>]

\* no optical detection: d["validation_type"] = "THERMAL_ONLY" on the
\* thermal detection itself
MarkThermalOnly(td) ==
    [bbox |-> td.bbox, centroid |-> td.centroid, max_temp |-> td.max_temp,
     confidence |-> td.confidence, validation_type |-> "THERMAL_ONLY"]

\* step 4 of _process_with_frame: fused_dets
FusedDets(thermal, rgb) ==
    IF rgb # <<>>
    THEN LET f == Fuse(thermal, rgb).fused IN [i \in DOMAIN f |-> ScaleBack(f[i])]
    ELSE [i \in DOMAIN thermal |-> MarkThermalOnly(thermal[i])]

\* steps 3 and 4 of _process_with_frame on the detections of one frame, once
HandOffCall ==
    /\ call.op = "init"
    /\ fused' = FusedDets(thermal_dets, RgbDetections(thermal_dets, rgb_dets))
    /\ call' = [op |-> "hand_off", rgb |-> RgbDetections(thermal_dets, rgb_dets)]
    /\ UNCHANGED <<objects, next_id, alert_history, require_validation, now,
                   last_emit, seen, retired, run, empty_run, thermal_dets, rgb_dets,
                   pipeVars, detectVars, apiVars, threadVars>>

NextHandOff == HandOffCall

SpecHandOff == InitFuseOnly /\ [][NextHandOff]_vars

(***************************************************************************)
(* _compute_iou called on two boxes                                        *)
(***************************************************************************)
\* the (x, y, w, h) boxes with small corners and sides, zero sides included
Boxes == (0..MaxCoord) \X (0..MaxCoord) \X (0..MaxSide) \X (0..MaxSide)

\* iou = FusionEngine._compute_iou(box_a, box_b), once
IouCall(box_a, box_b) ==
    /\ call.op = "init"
    /\ call' = [op |-> "compute_iou", box_a |-> box_a, box_b |-> box_b,
                iou |-> ComputeIou(box_a, box_b)]
    /\ UNCHANGED <<objects, next_id, alert_history, require_validation, now,
                   last_emit, seen, retired, run, empty_run, fuseVars, detectVars, pipeVars,
                   apiVars, threadVars>>

NextIou == \E box_a \in Boxes, box_b \in Boxes : IouCall(box_a, box_b)

\* no tracker, alert manager or fuse call is involved
InitIou ==
    /\ InitTrack /\ require_validation = None /\ InitFuseIdle /\ InitPipeIdle
    /\ InitDetectIdle

SpecIou == InitIou /\ [][NextIou]_vars

(***************************************************************************)
(* ThermalDetector.detect called on a frame                                *)
(***************************************************************************)
\* a frame of one intensity
Uniform(v) == [p \in Pixels |-> v]

\* img with the w x h block at (x0, y0) set to v
WithBlock(img, x0, y0, w, h, v) ==
    [p \in Pixels |->
        IF /\ x0 <= p[1] /\ p[1] < x0 + w
           /\ y0 <= p[2] /\ p[2] < y0 + h
        THEN v ELSE img[p]]

\* the intensities the frames are made of: black, a cold scene, the two
\* sides of HUMAN_INTENSITY_FLOOR, a warm scene, the two sides of the upper
\* cut of the threshold, and white
Intensities == {0, 60, 110, 111, 200, 245, 246, 255}

\* the blocks (x0, y0, w, h) laid on a background: a speck, a strip, small
\* and large squares, in a corner and inside the frame
Blocks ==
    {<<0, 0, 1, 1>>, <<4, 3, 1, 1>>, <<1, 3, 8, 1>>, <<3, 2, 3, 3>>,
     <<0, 0, 5, 5>>, <<2, 1, 6, 6>>, <<1, 0, 8, 7>>, <<0, 0, 7, 7>>}

\* the frames detect is called on: the uniform frames, a block of another
\* intensity on a uniform background, and such a block with a cooler pixel
\* inside it
ThermalFrames ==
    {Uniform(v) : v \in Intensities}
        \cup {WithBlock(Uniform(b), r[1], r[2], r[3], r[4], v) :
                b \in {0, 60, 200}, r \in Blocks, v \in {200, 250, 255}}
        \cup {WithBlock(WithBlock(Uniform(b), r[1], r[2], r[3], r[4], 255),
                        r[1] + r[3] \div 2, r[2] + r[4] \div 2, 1, 1, 190) :
                b \in {0, 200}, r \in Blocks}

\* a frame about to be given to the detector
InitDetect == gray \in ThermalFrames /\ detect_out = NotDetected

\* detections, binary = thermal_det.detect(gray), once
DetectCall ==
    /\ ~detect_out.called
    /\ detect_out' = [called |-> TRUE] @@ Detect(gray)
    /\ UNCHANGED <<trackVars, fuseVars, pipeVars, apiVars, threadVars, gray>>

\* the thermal detector alone
NextDetect == DetectCall

\* ThermalDetector() about to be called on a frame
InitDetectOnly ==
    InitTrack /\ require_validation = None /\ InitFuseIdle /\ InitPipeIdle /\ InitDetect

SpecDetect == InitDetectOnly /\ [][NextDetect]_vars

(***************************************************************************)
(* fusion_pipeline.py: the reader thread and the processor thread          *)
(***************************************************************************)
\* the stage of a full-chain frame that raises, "none" when no stage is made
\* to raise: thermal_det.detect / rgb_det.detect, fusion.fuse,
\* tracker.update, alert_mgr.check_and_emit, the on_detection callback,
\* _annotate and cv2.imencode
Faults ==
    {"none", "detect", "fuse", "update", "check_and_emit", "on_detection",
     "annotate", "imencode"}

\* what is raised: an Exception, or a BaseException that is not one
\* (SystemExit, KeyboardInterrupt, GeneratorExit)
Raises == {"Exception", "BaseException"}

\* what FrameSource.get_frame() does: returns a frame, returns None, raises
GetFrameOutcomes == {"frame", "none"} \cup Raises

\* the fused detections a full-chain frame hands to the tracker
PipeFrames == { <<>>, <<DetA>> }

\* reading obj.<name>: the attribute exists
HasAttr(obj, name) == name \in DOMAIN obj

\* _annotate reads obj.smooth_bbox of every tracked object
AnnotateRaises(tracked) ==
    \E oid \in DOMAIN tracked : ~HasAttr(tracked[oid], "smooth_bbox")

\* _annotate(frame, tracked): the display frame, by what it shows
Annotate(raw, tracked, fnum) ==
    [raw |-> raw, boxes |-> DOMAIN tracked, frame_number |-> fnum]

\* cv2.imencode('.jpg', frame, ...)[1].tobytes()
Encode(frame) == [jpeg |-> "FRAME", of |-> frame]

\* the alerts of the batch whose track is in tracked (tracked.get(a["id"]))
RECURSIVE AlertsTracked(_, _)
AlertsTracked(alerts, tracked) ==
    IF alerts = <<>> THEN <<>>
    ELSE IF Head(alerts).id \in DOMAIN tracked
         THEN <<Head(alerts)>> \o AlertsTracked(Tail(alerts), tracked)
         ELSE AlertsTracked(Tail(alerts), tracked)

\* building a FusedHotspot reads obj.smooth_bbox
HotspotsRaise(alerts, tracked) ==
    \E i \in DOMAIN AlertsTracked(alerts, tracked) :
        ~HasAttr(tracked[AlertsTracked(alerts, tracked)[i].id], "smooth_bbox")

\* the hotspots list of the callback: one FusedHotspot per alert of the batch
Hotspots(alerts, tracked) ==
    [i \in DOMAIN AlertsTracked(alerts, tracked) |->
        LET obj == tracked[AlertsTracked(alerts, tracked)[i].id]
        IN  [track_id |-> obj.object_id, estimated_temp |-> obj.max_temp,
             confidence |-> obj.confidence, validation_type |-> obj.validation_type,
             bbox |-> obj.smooth_bbox, persistence |-> obj.persistence]]

\* DetectionEvent(hotspots, frame_number, total_count)
DetectionEvent(hotspots, fnum, tracked) ==
    [hotspots |-> hotspots, frame_number |-> fnum,
     total_count |-> Cardinality(DOMAIN tracked)]

\* `alerts and self.on_detection`: the callback is set
CallbackSet(cb) == cb # None

\* _process_with_frame(raw) on frame number fnum, when the detect and fuse
\* stages yield dets, argsort returns rows, the clock reads t inside
\* check_and_emit, and the stage fault raises exc if it is reached.  A stage
\* that raises has not changed the state of its object.  `reached` is the
\* last stage entered, `raised` what was raised inside the try block ("none"
\* if nothing was), `frame` the display frame when nothing was raised.
ProcessWithFrame(raw, fnum, dets, rows, fault, exc, t) ==
    LET u == Update(objects, next_id, dets, rows)
        a == CheckAndEmit(u.objects, alert_history, require_validation, fnum, t)
        hs == Hotspots(a.alerts, a.objects)
        ev == DetectionEvent(hs, fnum, a.objects)
        called == a.alerts # <<>> /\ CallbackSet(on_detection)
        at_detect ==
            [frame |-> NoDisplay, objects |-> objects, next_id |-> next_id,
             alert_history |-> alert_history, cached_tracked |-> cached_tracked,
             now |-> now, updated |-> FALSE, checked |-> FALSE,
             alerts |-> <<>>, event |-> NoEvent, reached |-> "detect",
             raised |-> "none"]
        at_update == [at_detect EXCEPT !.reached = "update"]
        at_check ==
            [at_update EXCEPT !.objects = u.objects, !.next_id = u.next_id,
                              !.cached_tracked = u.objects, !.updated = TRUE,
                              !.reached = "check_and_emit"]
        at_hotspots ==
            [at_check EXCEPT !.objects = a.objects, !.cached_tracked = a.objects,
                             !.alert_history = a.alert_history, !.now = t,
                             !.checked = TRUE, !.alerts = a.alerts,
                             !.reached = "hotspots"]
        at_callback == [at_hotspots EXCEPT !.event = ev, !.reached = "on_detection"]
        before_annotate == IF called /\ hs # <<>> THEN at_callback ELSE at_hotspots
        at_annotate == [before_annotate EXCEPT !.reached = "annotate"]
    IN  IF fault \in {"detect", "fuse"} THEN [at_detect EXCEPT !.raised = exc]
        ELSE IF fault = "update" THEN [at_update EXCEPT !.raised = exc]
        ELSE IF fault = "check_and_emit" THEN [at_check EXCEPT !.raised = exc]
        ELSE IF called /\ HotspotsRaise(a.alerts, a.objects)
             THEN [at_hotspots EXCEPT !.raised = "Exception"]
        ELSE IF called /\ hs # <<>> /\ fault = "on_detection"
             THEN [at_callback EXCEPT !.raised = exc]
        ELSE IF fault = "annotate" THEN [at_annotate EXCEPT !.raised = exc]
        ELSE IF AnnotateRaises(a.objects)
             THEN [at_annotate EXCEPT !.raised = "Exception"]
        ELSE [at_annotate EXCEPT !.frame = Annotate(raw, a.objects, fnum),
                                 !.reached = "return"]

\* no handler catches anything
CaughtNothing(exc) == FALSE

\* `except Exception`: what the handler catches
Caught(exc) == exc = "Exception"

\* a frame that returned None leaves the cache as it is
PublishKeep(jpeg, frame) == IF frame = NoDisplay THEN jpeg ELSE Encode(frame)

\* lines 340-348: _current_jpeg after a frame whose annotation returned
\* frame (NoDisplay for None), jpeg being its value before
Publish(jpeg, frame) == IF frame = NoDisplay THEN placeholder_jpeg ELSE Encode(frame)

\* run_detect = (self._loop_frame % self._detect_interval == 0)
RunDetect(n) == n % detect_interval = 0

\* a lock nobody waits for
LockOpen(holder) == TRUE

\* `with self._raw_lock:` can be entered
LockFree(holder) == holder = "free"

\* the guard of the processor loop that lets every snapshot through
NoNewFrameNever(raw, seq) == FALSE

\* raw is None or seq == self._last_processed_seq
NoNewFrame(raw, seq) == raw = NoFrame \/ seq = last_processed_seq

\* get_jpeg()
GetJpeg == IF current_jpeg # NoJpeg THEN current_jpeg ELSE placeholder_jpeg

\* the tracker, the alert manager and the fusion call are left alone
PipeIdleRest ==
    UNCHANGED <<objects, next_id, alert_history, require_validation, now,
                last_emit, seen, retired, run, empty_run, fuseVars, detectVars, on_detection,
                apiVars, threadVars>>

\* start() called while no thread of an earlier start() is alive: the
\* pipeline specifications follow one reader and one processor thread, and
\* SpecThreads follows the threads of every start() call
Start ==
    /\ ~running
    /\ reader # "alive" /\ processor # "alive"
    /\ running' = TRUE
    /\ reader' = "alive" /\ rpc' = "head"
    /\ processor' = "alive" /\ ppc' = "head"
    /\ escaped' = {}
    /\ call' = [op |-> "start"]
    /\ PipeIdleRest
    /\ UNCHANGED <<raw_lock, source_frames, r_raw, latest_raw, raw_seq, p_raw, p_seq,
                   last_processed_seq, loop_frame, frame_number, cached_tracked,
                   current_jpeg, published>>

\* stop(): the flag is cleared and both threads are joined
Stop ==
    /\ running
    /\ running' = FALSE
    /\ call' = [op |-> "stop"]
    /\ PipeIdleRest
    /\ UNCHANGED <<reader, rpc, processor, ppc, raw_lock, source_frames, r_raw,
                   latest_raw, raw_seq, p_raw, p_seq, last_processed_seq, loop_frame,
                   frame_number, cached_tracked, current_jpeg, published, escaped>>

\* what the reader thread leaves alone
ReaderRest ==
    /\ PipeIdleRest
    /\ UNCHANGED <<running, processor, ppc, p_raw, p_seq, last_processed_seq,
                   loop_frame, frame_number, cached_tracked, current_jpeg, published>>

\* _camera_reader: `while self._running` is false
ReaderExit ==
    /\ reader = "alive" /\ rpc = "head" /\ ~running
    /\ reader' = "exited"
    /\ call' = [op |-> "reader_exit"]
    /\ ReaderRest
    /\ UNCHANGED <<rpc, raw_lock, source_frames, r_raw, latest_raw, raw_seq, escaped>>

\* _camera_reader: raw = self.thermal_source.get_frame()
ReaderGetFrame(outcome) ==
    /\ reader = "alive" /\ rpc = "head" /\ running
    /\ IF outcome = "frame"
       THEN /\ source_frames < MaxSeq
            /\ source_frames' = source_frames + 1
            /\ r_raw' = source_frames + 1
            /\ rpc' = "got"
            /\ UNCHANGED <<reader, escaped>>
       ELSE /\ UNCHANGED <<source_frames, r_raw, rpc>>
            /\ reader' = IF outcome = "none" \/ Caught(outcome) THEN "alive" ELSE "exited"
            /\ escaped' = IF outcome = "BaseException" THEN escaped \cup {"reader"}
                          ELSE escaped
    /\ call' = [op |-> "get_frame", outcome |-> outcome,
                latest_raw |-> latest_raw, raw_seq |-> raw_seq]
    /\ ReaderRest
    /\ UNCHANGED <<raw_lock, latest_raw, raw_seq>>

\* _camera_reader: `with self._raw_lock:` entered
ReaderAcquire ==
    /\ reader = "alive" /\ rpc = "got" /\ LockFree(raw_lock)
    /\ raw_lock' = "reader"
    /\ rpc' = "locked"
    /\ call' = [op |-> "reader_acquire"]
    /\ ReaderRest
    /\ UNCHANGED <<reader, source_frames, r_raw, latest_raw, raw_seq, escaped>>

\* _camera_reader: self._latest_raw = raw
ReaderStoreRaw ==
    /\ reader = "alive" /\ rpc = "locked"
    /\ latest_raw' = r_raw
    /\ rpc' = "stored"
    /\ call' = [op |-> "store_raw"]
    /\ ReaderRest
    /\ UNCHANGED <<reader, raw_lock, source_frames, r_raw, raw_seq, escaped>>

\* _camera_reader: self._raw_seq += 1, and the lock is released
ReaderStoreSeq ==
    /\ reader = "alive" /\ rpc = "stored"
    /\ raw_seq' = raw_seq + 1
    /\ raw_lock' = "free"
    /\ rpc' = "head"
    /\ call' = [op |-> "store_seq"]
    /\ ReaderRest
    /\ UNCHANGED <<reader, source_frames, r_raw, latest_raw, escaped>>

\* what the steps of the processor thread before a frame is taken leave alone
ProcessorRest ==
    /\ PipeIdleRest
    /\ UNCHANGED <<running, reader, rpc, source_frames, r_raw, latest_raw,
                   raw_seq, last_processed_seq, loop_frame, frame_number,
                   cached_tracked, current_jpeg, published, escaped>>

\* _capture_loop: `while self._running` is false
ProcessorExit ==
    /\ processor = "alive" /\ ppc = "head" /\ ~running
    /\ processor' = "exited"
    /\ call' = [op |-> "processor_exit"]
    /\ ProcessorRest
    /\ UNCHANGED <<ppc, raw_lock, p_raw, p_seq>>

\* _capture_loop: `with self._raw_lock:` entered
ProcessorAcquire ==
    /\ processor = "alive" /\ ppc = "head" /\ running /\ LockFree(raw_lock)
    /\ raw_lock' = "processor"
    /\ ppc' = "locked"
    /\ call' = [op |-> "processor_acquire"]
    /\ ProcessorRest
    /\ UNCHANGED <<processor, p_raw, p_seq>>

\* _capture_loop: raw = self._latest_raw
ProcessorReadRaw ==
    /\ processor = "alive" /\ ppc = "locked"
    /\ p_raw' = latest_raw
    /\ ppc' = "read_raw"
    /\ call' = [op |-> "read_raw"]
    /\ ProcessorRest
    /\ UNCHANGED <<processor, raw_lock, p_seq>>

\* _capture_loop: seq = self._raw_seq, and the lock is released
ProcessorReadSeq ==
    /\ processor = "alive" /\ ppc = "read_raw"
    /\ p_seq' = raw_seq
    /\ raw_lock' = "free"
    /\ ppc' = "snapshot"
    /\ call' = [op |-> "read_seq"]
    /\ ProcessorRest
    /\ UNCHANGED <<processor, p_raw>>

\* what a step of the processor thread leaves of the reader and the flags
FrameRest ==
    UNCHANGED <<running, reader, rpc, raw_lock, source_frames, r_raw,
                latest_raw, raw_seq, p_raw, p_seq, require_validation, on_detection,
                last_emit, seen, retired, run, empty_run, fuseVars, detectVars,
                threadVars>>

\* the state before a processor iteration, kept in call
Before ==
    [objects |-> objects, alert_history |-> alert_history,
     cached_tracked |-> cached_tracked, current_jpeg |-> current_jpeg,
     loop_frame |-> loop_frame, frame_number |-> frame_number,
     last_processed_seq |-> last_processed_seq, raw_seq |-> raw_seq]

\* _capture_loop: no new frame, sleep and continue
ProcessorIdle ==
    /\ processor = "alive" /\ ppc = "snapshot"
    /\ NoNewFrame(p_raw, p_seq)
    /\ ppc' = "head"
    /\ call' = [op |-> "idle", seq |-> p_seq, before |-> Before]
    /\ FrameRest /\ UNCHANGED <<apiVars, threadVars>>
    /\ UNCHANGED <<processor, objects, next_id, alert_history, now, last_processed_seq,
                   loop_frame, frame_number, cached_tracked, current_jpeg, published,
                   escaped>>

\* _capture_loop: a frame that skips detection, frame = _annotate(raw,
\* self._cached_tracked); fault is the step that raises exc, if any
ProcessorFast(fault, exc) ==
    /\ processor = "alive" /\ ppc = "snapshot"
    /\ ~NoNewFrame(p_raw, p_seq)
    /\ ~RunDetect(loop_frame + 1)
    /\ last_processed_seq' = p_seq
    /\ loop_frame' = loop_frame + 1
    /\ frame_number' = frame_number + 1
    /\ LET raised == IF fault = "annotate" THEN exc
                     ELSE IF AnnotateRaises(cached_tracked) THEN "Exception"
                     ELSE IF fault = "imencode" THEN exc ELSE "none"
           frame == Annotate(p_raw, cached_tracked, frame_number + 1)
       IN  /\ current_jpeg' = IF raised # "none" THEN current_jpeg
                              ELSE Publish(current_jpeg, frame)
           /\ published' = IF raised # "none" THEN published
                            ELSE [ever |-> TRUE, last |-> "frame", raw |-> p_raw]
           /\ processor' = IF raised = "none" \/ Caught(raised) THEN "alive" ELSE "exited"
           /\ escaped' = IF raised = "BaseException" THEN escaped \cup {"processor"}
                         ELSE escaped
           /\ call' = [op |-> "fast", seq |-> p_seq, raw |-> p_raw, fault |-> fault,
                       raised |-> raised, event |-> NoEvent, before |-> Before]
    /\ ppc' = "head"
    /\ FrameRest /\ UNCHANGED <<apiVars, threadVars>>
    /\ UNCHANGED <<objects, next_id, alert_history, now, cached_tracked>>

\* _capture_loop: a full-chain frame, frame = _process_with_frame(raw); fault
\* is the step that raises exc, if it is reached
ProcessorFull(fault, exc, dets, dt) ==
    /\ processor = "alive" /\ ppc = "snapshot"
    /\ ~NoNewFrame(p_raw, p_seq)
    /\ RunDetect(loop_frame + 1)
    /\ now + dt <= MaxTime
    /\ last_processed_seq' = p_seq
    /\ loop_frame' = loop_frame + 1
    /\ frame_number' = frame_number + 1
    /\ \E rows \in RowOrders(objects, dets) :
       \E r \in {ProcessWithFrame(p_raw, frame_number + 1, dets, rows, fault, exc,
                                   now + dt)} :
          LET \* what leaves _process_with_frame through its `except Exception`
              inner == IF r.raised # "none" /\ ~Caught(r.raised) THEN r.raised ELSE "none"
              \* what is raised inside the try block of the loop
              raised == IF inner # "none" THEN inner
                        ELSE IF r.raised = "none" /\ fault = "imencode" THEN exc
                        ELSE "none"
          IN  /\ r.next_id <= MaxId
              /\ \A oid \in DOMAIN r.objects :
                    r.objects[oid].persistence <= MaxPersistence
              /\ objects' = r.objects
              /\ next_id' = r.next_id
              /\ alert_history' = r.alert_history
              /\ now' = r.now
              /\ cached_tracked' = r.cached_tracked
              /\ current_jpeg' = IF raised # "none" THEN current_jpeg
                                 ELSE Publish(current_jpeg, r.frame)
              /\ published' = IF raised # "none" THEN published
                              ELSE IF r.frame = NoDisplay
                              THEN [published EXCEPT !.last = "placeholder"]
                              ELSE [ever |-> TRUE, last |-> "frame", raw |-> p_raw]
              /\ processor' = IF raised = "none" \/ Caught(raised) THEN "alive"
                              ELSE "exited"
              /\ escaped' = IF raised = "BaseException" THEN escaped \cup {"processor"}
                            ELSE escaped
              /\ call' = [op |-> "full", seq |-> p_seq, raw |-> p_raw, fault |-> fault,
                          detections |-> dets, reached |-> r.reached,
                          raised |-> r.raised, frame |-> r.frame,
                          updated |-> r.updated, checked |-> r.checked,
                          alerts |-> r.alerts, event |-> r.event, before |-> Before]
    /\ ppc' = "head"
    /\ FrameRest /\ UNCHANGED <<apiVars, threadVars>>

\* the pipeline between start() and stop()
NextPipe ==
    \/ Start
    \/ Stop
    \/ ReaderExit
    \/ \E outcome \in GetFrameOutcomes : ReaderGetFrame(outcome)
    \/ ReaderAcquire
    \/ ReaderStoreRaw
    \/ ReaderStoreSeq
    \/ ProcessorExit
    \/ ProcessorAcquire
    \/ ProcessorReadRaw
    \/ ProcessorReadSeq
    \/ ProcessorIdle
    \/ \E fault \in {"none", "annotate", "imencode"}, exc \in Raises :
           ProcessorFast(fault, exc)
    \/ \E fault \in Faults, exc \in Raises, dets \in PipeFrames, dt \in 0..1 :
           ProcessorFull(fault, exc, dets, dt)

\* FusionPipeline(thermal_source, on_detection=...), with and without a
\* callback; require_rgb_validation keeps its default, False
InitPipe ==
    /\ InitTrack
    /\ require_validation = None
    /\ InitFuseIdle
    /\ PipeConstructed
    /\ on_detection \in {None, "callback"}
    /\ InitDetectIdle

SpecPipe == InitPipe /\ [][NextPipe]_vars

(***************************************************************************)
(* fusion_pipeline.py: the two threads of a pipeline that keeps running    *)
(***************************************************************************)
\* a step of the processor thread once it holds, or has released, the
\* raw-frame lock: nothing it calls raises but what the chain itself raises
ProcessorTurn ==
    \/ ProcessorReadRaw
    \/ ProcessorReadSeq
    \/ ProcessorIdle
    \/ ProcessorFast("none", "Exception")
    \/ \E dets \in PipeFrames : ProcessorFull("none", "Exception", dets, 0)

\* a step of the reader thread inside `with self._raw_lock:`
ReaderInLock == ReaderStoreRaw \/ ReaderStoreSeq

\* start() is called once and stop() never; get_frame() returns a frame or
\* None
NextFresh ==
    \/ Start
    \/ \E outcome \in {"frame", "none"} : ReaderGetFrame(outcome)
    \/ ReaderAcquire
    \/ ReaderInLock
    \/ ProcessorAcquire
    \/ ProcessorTurn

\* fair scheduling: the processor thread is scheduled and obtains the
\* raw-frame lock, which the reader releases again and again; the source
\* need not return another frame
FairFresh ==
    /\ SF_vars(ProcessorAcquire)
    /\ WF_vars(ProcessorTurn)
    /\ WF_vars(ReaderInLock)

\* FusionPipeline(thermal_source) with no callback
InitFresh ==
    /\ InitTrack /\ require_validation = None /\ InitFuseIdle /\ InitPipeIdle
    /\ InitDetectIdle

SpecFresh == InitFresh /\ [][NextFresh]_vars /\ FairFresh

(***************************************************************************)
(* fusion_pipeline.py: the full-chain frames of one processor thread       *)
(***************************************************************************)
\* the full-chain frames followed
MaxChainFrames == 5

\* a frame counter that stands still
SameFrame(fnum) == fnum

\* _capture_loop, lines 327-332: every iteration adds one to frame_number and
\* every detect_interval-th runs the full chain, so the counter has advanced
\* by detect_interval from one full-chain frame to the next
NextFullFrame(fnum) == fnum + detect_interval

\* id -> the frame number its last alert carried, kept in call
LastAlertFrame == IF call.op = "chain" THEN call.alert_frames ELSE <<>>

\* _capture_loop runs _process_with_frame on the next full-chain frame: the
\* fused detections are dets, the clock has advanced by dt, nothing raises
\* but what the chain itself raises
ChainFrame(dets, dt) ==
    /\ frame_number < MaxChainFrames * detect_interval
    /\ now + dt <= MaxTime
    /\ frame_number' = NextFullFrame(frame_number)
    /\ \E rows \in RowOrders(objects, dets) :
       \E r \in {ProcessWithFrame(1, NextFullFrame(frame_number), dets, rows, "none",
                                   "Exception", now + dt)} :
          /\ r.next_id <= MaxAlertId
          /\ \A oid \in DOMAIN r.objects : r.objects[oid].persistence <= MaxPersistence
          /\ objects' = r.objects
          /\ next_id' = r.next_id
          /\ alert_history' = r.alert_history
          /\ now' = r.now
          /\ cached_tracked' = r.cached_tracked
          /\ call' = [op |-> "chain", alerts |-> r.alerts,
                      prev_frames |-> LastAlertFrame,
                      alert_frames |->
                          [k \in DOMAIN LastAlertFrame
                                   \cup {r.alerts[i].id : i \in DOMAIN r.alerts} |->
                              IF \E i \in DOMAIN r.alerts : r.alerts[i].id = k
                              THEN NextFullFrame(frame_number) ELSE LastAlertFrame[k]]]
    /\ UNCHANGED <<require_validation, last_emit, seen, retired, run, empty_run,
                   fuseVars, detectVars, on_detection, running, reader, rpc,
                   processor, ppc, raw_lock, source_frames, r_raw, latest_raw,
                   raw_seq, p_raw, p_seq, last_processed_seq, loop_frame,
                   current_jpeg, published, escaped, apiVars, threadVars>>

NextChain == \E dets \in AlertFrames, dt \in 0..MaxStep : ChainFrame(dets, dt)

\* FusionPipeline(...) with no callback, its processor the only caller
SpecChain == InitAlert /\ [][NextChain]_vars

(***************************************************************************)
(* fusion_pipeline.py: the public operations called from other threads     *)
(***************************************************************************)
\* The reader and the processor take one step per statement that another
\* thread can observe; of these steps `call` records only that one was taken.
\* a join that waits for the thread, however long it takes
JoinForever(thread) == thread # "alive"

\* `if t and t.is_alive(): t.join(timeout=3.0)` is over: the thread is not
\* alive, or the timeout has expired, which it can at any moment
JoinReturns(thread) == thread # "alive" \/ TRUE

\* an encoded-frame lock nobody waits for
JpegLockOpen(holder) == TRUE

\* `with self._jpeg_lock:` can be entered
JpegLockFree(holder) == holder = "free"

\* the threads inside Tracker.update / AlertManager.check_and_emit: the
\* processor on a full-chain frame, the callers inside process_next
InChain ==
    (IF processor = "alive" /\ ppc = "working" /\ RunDetect(loop_frame)
     THEN {"processor"} ELSE {})
        \cup {c \in Callers : callers[c].pc = "pn_chain"}

\* the stage at which a chain that ran while another thread was inside the
\* tracker or the alert manager fails, "none" when it goes through: the two
\* objects are shared without a lock, so either call may find the track map
\* changed under it
ChainFaults(thread) ==
    IF thread \in raced THEN {"none", "update", "check_and_emit"} ELSE {"none"}

\* what a step of a caller leaves of the two threads
CallerRest ==
    UNCHANGED <<reader, rpc, processor, ppc, raw_lock, r_raw, latest_raw, raw_seq,
                p_raw, p_seq, last_processed_seq, loop_frame, p_jpeg,
                require_validation, on_detection, last_emit, seen, retired, run,
                empty_run, fuseVars, detectVars, escaped, threadVars>>

\* what a step that runs no chain leaves of the tracker and the alert manager
ChainRest == UNCHANGED <<objects, next_id, alert_history, now, cached_tracked>>

\* stop(): self._running = False
StopCall(c) ==
    /\ callers[c] = Idle
    /\ running' = FALSE
    /\ callers' = [callers EXCEPT ![c].pc = "join_reader"]
    /\ call' = [op |-> "api"]
    /\ CallerRest /\ ChainRest
    /\ UNCHANGED <<jpeg_lock, raced, source_frames, frame_number, current_jpeg, published>>

\* stop(): the reader thread is joined
JoinReader(c) ==
    /\ callers[c].pc = "join_reader"
    /\ JoinReturns(reader)
    /\ callers' = [callers EXCEPT ![c].pc = "join_processor"]
    /\ call' = [op |-> "api"]
    /\ CallerRest /\ ChainRest
    /\ UNCHANGED <<running, jpeg_lock, raced, source_frames, frame_number,
                   current_jpeg, published>>

\* stop(): the processor thread is joined, and stop() returns
JoinProcessor(c) ==
    /\ callers[c].pc = "join_processor"
    /\ JoinReturns(processor)
    /\ callers' = [callers EXCEPT ![c] = Idle]
    /\ call' = [op |-> "api"]
    /\ CallerRest /\ ChainRest
    /\ UNCHANGED <<running, jpeg_lock, raced, source_frames, frame_number,
                   current_jpeg, published>>

\* get_jpeg() is called
GetJpegCall(c) ==
    /\ callers[c] = Idle
    /\ callers' = [callers EXCEPT ![c].pc = "get_jpeg"]
    /\ call' = [op |-> "api"]
    /\ CallerRest /\ ChainRest
    /\ UNCHANGED <<running, jpeg_lock, raced, source_frames, frame_number,
                   current_jpeg, published>>

\* get_jpeg(): `with self._jpeg_lock:` entered
GetJpegLock(c) ==
    /\ callers[c].pc = "get_jpeg"
    /\ JpegLockFree(jpeg_lock)
    /\ jpeg_lock' = c
    /\ callers' = [callers EXCEPT ![c].pc = "get_jpeg_locked"]
    /\ call' = [op |-> "api"]
    /\ CallerRest /\ ChainRest
    /\ UNCHANGED <<running, raced, source_frames, frame_number, current_jpeg, published>>

\* get_jpeg(): return self._current_jpeg or self._placeholder_jpeg
GetJpegReturn(c) ==
    /\ callers[c].pc = "get_jpeg_locked"
    /\ jpeg_lock' = "free"
    /\ callers' = [callers EXCEPT ![c] = Idle]
    /\ call' = [op |-> "api"]
    /\ CallerRest /\ ChainRest
    /\ UNCHANGED <<running, raced, source_frames, frame_number, current_jpeg, published>>

\* process_next() is called: full_frame = self.thermal_source.get_frame()
ProcessNextCall(c) ==
    /\ callers[c] = Idle
    /\ callers' = [callers EXCEPT ![c].pc = "pn_get_frame"]
    /\ call' = [op |-> "api"]
    /\ CallerRest /\ ChainRest
    /\ UNCHANGED <<running, jpeg_lock, raced, source_frames, frame_number,
                   current_jpeg, published>>

\* process_next(): get_frame() has returned; None and an exception end the
\* call, a frame is followed by self.frame_number += 1 and the chain is
\* entered
ProcessNextGot(c, outcome) ==
    /\ callers[c].pc = "pn_get_frame"
    /\ IF outcome = "frame"
       THEN /\ source_frames < MaxApiFrames
            /\ source_frames' = source_frames + 1
            /\ frame_number' = frame_number + 1
            /\ callers' = [callers EXCEPT ![c] = [pc |-> "pn_chain",
                                                  raw |-> source_frames + 1]]
            /\ raced' = IF InChain # {} THEN raced \cup InChain \cup {c} ELSE raced
       ELSE /\ callers' = [callers EXCEPT ![c] = Idle]
            /\ UNCHANGED <<source_frames, frame_number, raced>>
    /\ call' = [op |-> "api"]
    /\ CallerRest /\ ChainRest
    /\ UNCHANGED <<running, jpeg_lock, current_jpeg, published>>

\* process_next(): return self._process_with_frame(full_frame)
ProcessNextReturn(c, fault) ==
    /\ callers[c].pc = "pn_chain"
    /\ fault \in ChainFaults(c)
    /\ \E rows \in RowOrders(objects, <<DetA>>) :
       \E r \in {ProcessWithFrame(callers[c].raw, frame_number, <<DetA>>, rows, fault,
                                   "Exception", now)} :
          /\ objects' = r.objects
          /\ next_id' = r.next_id
          /\ alert_history' = r.alert_history
          /\ now' = r.now
          /\ cached_tracked' = r.cached_tracked
          /\ call' = [op |-> "api"]
    /\ callers' = [callers EXCEPT ![c] = Idle]
    /\ raced' = raced \ {c}
    /\ CallerRest
    /\ UNCHANGED <<running, jpeg_lock, source_frames, frame_number, current_jpeg,
                   published>>

\* _camera_reader: self.thermal_source.get_frame() is called
ReaderCall ==
    /\ reader = "alive" /\ rpc = "head" /\ running
    /\ rpc' = "calling"
    /\ call' = [op |-> "api"]
    /\ ReaderRest
    /\ UNCHANGED <<reader, raw_lock, source_frames, r_raw, latest_raw, raw_seq, escaped>>

\* _camera_reader: get_frame() has returned a frame or None, or raised what
\* the handler catches
ReaderReturn(outcome) ==
    /\ reader = "alive" /\ rpc = "calling"
    /\ IF outcome = "frame"
       THEN /\ source_frames < MaxApiFrames
            /\ source_frames' = source_frames + 1
            /\ r_raw' = source_frames + 1
            /\ rpc' = "got"
       ELSE /\ rpc' = "head"
            /\ UNCHANGED <<source_frames, r_raw>>
    /\ call' = [op |-> "api"]
    /\ ReaderRest
    /\ UNCHANGED <<reader, raw_lock, latest_raw, raw_seq, escaped>>

\* _capture_loop: a new frame is taken: the sequence number is recorded and
\* the two counters are incremented
ProcessorBegin ==
    /\ processor = "alive" /\ ppc = "snapshot"
    /\ ~NoNewFrame(p_raw, p_seq)
    /\ last_processed_seq' = p_seq
    /\ loop_frame' = loop_frame + 1
    /\ frame_number' = frame_number + 1
    /\ ppc' = "working"
    /\ raced' = IF RunDetect(loop_frame + 1) /\ InChain # {}
                THEN raced \cup InChain \cup {"processor"} ELSE raced
    /\ call' = [op |-> "api"]
    /\ FrameRest /\ ChainRest
    /\ UNCHANGED <<processor, jpeg_lock, callers, p_jpeg, current_jpeg, published, escaped>>

\* _capture_loop: the frame is processed (_process_with_frame on a
\* full-chain frame, _annotate otherwise) and encoded, outside both locks
ProcessorWork(fault) ==
    /\ processor = "alive" /\ ppc = "working"
    /\ IF RunDetect(loop_frame)
       THEN /\ fault \in ChainFaults("processor")
            /\ \E rows \in RowOrders(objects, <<DetA>>) :
               \E r \in {ProcessWithFrame(p_raw, frame_number, <<DetA>>, rows, fault,
                                           "Exception", now)} :
                  /\ objects' = r.objects
                  /\ next_id' = r.next_id
                  /\ alert_history' = r.alert_history
                  /\ now' = r.now
                  /\ cached_tracked' = r.cached_tracked
                  /\ p_jpeg' = Publish(current_jpeg, r.frame)
       ELSE /\ fault = "none"
            /\ p_jpeg' = IF AnnotateRaises(cached_tracked) THEN NoJpeg
                         ELSE Publish(current_jpeg,
                                      Annotate(p_raw, cached_tracked, frame_number))
            /\ ChainRest
    /\ ppc' = IF p_jpeg' = NoJpeg THEN "head" ELSE "encoded"
    /\ raced' = raced \ {"processor"}
    /\ call' = [op |-> "api"]
    /\ FrameRest
    /\ UNCHANGED <<processor, jpeg_lock, callers, last_processed_seq, loop_frame,
                   frame_number, current_jpeg, published, escaped>>

\* _capture_loop: `with self._jpeg_lock:` entered
ProcessorLockJpeg ==
    /\ processor = "alive" /\ ppc = "encoded"
    /\ JpegLockFree(jpeg_lock)
    /\ jpeg_lock' = "processor"
    /\ ppc' = "publishing"
    /\ call' = [op |-> "api"]
    /\ FrameRest /\ ChainRest
    /\ UNCHANGED <<processor, callers, p_jpeg, raced, last_processed_seq, loop_frame,
                   frame_number, current_jpeg, published, escaped>>

\* _capture_loop: self._current_jpeg is written and the lock is released
ProcessorPublish ==
    /\ processor = "alive" /\ ppc = "publishing"
    /\ current_jpeg' = p_jpeg
    /\ published' = IF p_jpeg = placeholder_jpeg
                    THEN [published EXCEPT !.last = "placeholder"]
                    ELSE [ever |-> TRUE, last |-> "frame", raw |-> p_raw]
    /\ jpeg_lock' = "free"
    /\ ppc' = "head"
    /\ call' = [op |-> "api"]
    /\ FrameRest /\ ChainRest
    /\ UNCHANGED <<processor, callers, p_jpeg, raced, last_processed_seq, loop_frame,
                   frame_number, escaped>>

\* the steps of the reader thread
ReaderSteps ==
    \/ ReaderExit
    \/ ReaderCall
    \/ ReaderAcquire
    \/ ReaderStoreRaw
    \/ ReaderStoreSeq

\* the steps of the processor thread
ProcessorSteps ==
    \/ ProcessorExit
    \/ ProcessorAcquire
    \/ ProcessorReadRaw
    \/ ProcessorReadSeq
    \/ ProcessorIdle
    \/ ProcessorBegin
    \/ \E fault \in {"none", "update", "check_and_emit"} : ProcessorWork(fault)
    \/ ProcessorLockJpeg
    \/ ProcessorPublish

\* the pipeline with its public operations called from other threads
NextApi ==
    \/ Start
    \/ ReaderSteps
    \/ \E outcome \in {"frame", "none", "Exception"} : ReaderReturn(outcome)
    \/ ProcessorSteps
    \/ \E c \in Callers : StopCall(c)
    \/ \E c \in Callers : JoinReader(c)
    \/ \E c \in Callers : JoinProcessor(c)
    \/ \E c \in Callers : GetJpegCall(c)
    \/ \E c \in Callers : GetJpegLock(c)
    \/ \E c \in Callers : GetJpegReturn(c)
    \/ \E c \in Callers : ProcessNextCall(c)
    \/ \E c \in Callers, outcome \in {"frame", "none"} : ProcessNextGot(c, outcome)
    \/ \E c \in Callers, fault \in {"none", "update", "check_and_emit"} :
           ProcessNextReturn(c, fault)

\* FusionPipeline(thermal_source) with no callback
InitApi ==
    /\ InitTrack
    /\ require_validation = None
    /\ InitFuseIdle
    /\ PipeConstructed
    /\ on_detection = None
    /\ InitDetectIdle

SpecApi == InitApi /\ [][NextApi]_vars

\* a caller inside get_jpeg() is scheduled, and so is the processor while it
\* holds the encoded-frame lock; a lock that is released again and again is
\* obtained; nothing else need ever happen: get_frame() need not return
FairJpeg ==
    /\ WF_vars(ProcessorPublish)
    /\ \A c \in Callers : SF_vars(GetJpegLock(c)) /\ WF_vars(GetJpegReturn(c))

SpecApiJpeg == SpecApi /\ FairJpeg

\* a caller inside stop() is scheduled; nothing else need ever happen: the
\* threads need not exit
FairStop ==
    \A c \in Callers : WF_vars(JoinReader(c)) /\ WF_vars(JoinProcessor(c))

SpecApiStop == SpecApi /\ FairStop

(***************************************************************************)
(* fusion_pipeline.py: start() and stop() called from other threads        *)
(***************************************************************************)
\* Every threading.Thread a start() call creates is an entry of threads, with
\* its target and its position: at the `while self._running` test ("head"),
\* inside the loop body ("body"), or returned ("exited").
\* the start() calls that create threads
MaxStarts == 2

\* the callers inside start(), past its test of the flag
Starting ==
    {c \in Callers : callers[c].pc \in {"start_set", "start_reader", "start_processor"}}

\* the state of the thread a reference holds, "none" for None
ThreadState(ref) ==
    IF ref = NoThread THEN "none"
    ELSE IF threads[ref].pc = "exited" THEN "exited" ELSE "alive"

\* what a step of start(), of stop() or of a thread's loop leaves alone
ThreadRest ==
    /\ call' = [op |-> "threads"]
    /\ UNCHANGED <<objects, next_id, alert_history, require_validation, now,
                   last_emit, seen, retired, run, empty_run, fuseVars, detectVars,
                   on_detection, reader, rpc, processor, ppc, raw_lock,
                   source_frames, r_raw, latest_raw, raw_seq, p_raw, p_seq,
                   last_processed_seq, loop_frame, frame_number, cached_tracked,
                   current_jpeg, published, escaped, jpeg_lock, p_jpeg, raced>>

\* start(): `if self._running: return`
StartTest(c) ==
    /\ callers[c] = Idle
    /\ IF running
       THEN UNCHANGED callers
       ELSE /\ Len(threads) + 2 * Cardinality(Starting) < 2 * MaxStarts
            /\ callers' = [callers EXCEPT ![c].pc = "start_set"]
    /\ ThreadRest /\ UNCHANGED <<running, threadVars>>

\* start(): self._running = True
StartSet(c) ==
    /\ callers[c].pc = "start_set"
    /\ running' = TRUE
    /\ callers' = [callers EXCEPT ![c].pc = "start_reader"]
    /\ ThreadRest /\ UNCHANGED threadVars

\* start(): the reader thread is created and started
StartReader(c) ==
    /\ callers[c].pc = "start_reader"
    /\ threads' = Append(threads, [target |-> "_camera_reader", pc |-> "head"])
    /\ reader_thread' = Len(threads) + 1
    /\ callers' = [callers EXCEPT ![c].pc = "start_processor"]
    /\ ThreadRest /\ UNCHANGED <<running, capture_thread>>

\* start(): the processor thread is created and started, and start() returns
StartProcessor(c) ==
    /\ callers[c].pc = "start_processor"
    /\ threads' = Append(threads, [target |-> "_capture_loop", pc |-> "head"])
    /\ capture_thread' = Len(threads) + 1
    /\ callers' = [callers EXCEPT ![c] = Idle]
    /\ ThreadRest /\ UNCHANGED <<running, reader_thread>>

\* stop(): self._running = False
StopClear(c) ==
    /\ callers[c] = Idle
    /\ running' = FALSE
    /\ callers' = [callers EXCEPT ![c].pc = "stop_join_reader"]
    /\ ThreadRest /\ UNCHANGED threadVars

\* stop(): the thread self._reader_thread holds is joined, if any
StopJoinReader(c) ==
    /\ callers[c].pc = "stop_join_reader"
    /\ JoinReturns(ThreadState(reader_thread))
    /\ callers' = [callers EXCEPT ![c].pc = "stop_join_processor"]
    /\ ThreadRest /\ UNCHANGED <<running, threadVars>>

\* stop(): the thread self._capture_thread holds is joined, if any
StopJoinProcessor(c) ==
    /\ callers[c].pc = "stop_join_processor"
    /\ JoinReturns(ThreadState(capture_thread))
    /\ callers' = [callers EXCEPT ![c].pc = "stop_forget"]
    /\ ThreadRest /\ UNCHANGED <<running, threadVars>>

\* stop(): both references are set to None, and stop() returns
StopForget(c) ==
    /\ callers[c].pc = "stop_forget"
    /\ reader_thread' = NoThread
    /\ capture_thread' = NoThread
    /\ callers' = [callers EXCEPT ![c] = Idle]
    /\ ThreadRest /\ UNCHANGED <<running, threads>>

\* a thread tests `while self._running`: it enters the body or returns
ThreadTest(i) ==
    /\ threads[i].pc = "head"
    /\ threads' = [threads EXCEPT ![i].pc = IF running THEN "body" ELSE "exited"]
    /\ ThreadRest /\ UNCHANGED <<running, callers, reader_thread, capture_thread>>

\* a thread finishes an iteration of its loop
ThreadIterate(i) ==
    /\ threads[i].pc = "body"
    /\ threads' = [threads EXCEPT ![i].pc = "head"]
    /\ ThreadRest /\ UNCHANGED <<running, callers, reader_thread, capture_thread>>

\* start() and stop() called in any order from two threads
NextThreads ==
    \/ \E c \in Callers : StartTest(c)
    \/ \E c \in Callers : StartSet(c)
    \/ \E c \in Callers : StartReader(c)
    \/ \E c \in Callers : StartProcessor(c)
    \/ \E c \in Callers : StopClear(c)
    \/ \E c \in Callers : StopJoinReader(c)
    \/ \E c \in Callers : StopJoinProcessor(c)
    \/ \E c \in Callers : StopForget(c)
    \/ \E i \in DOMAIN threads : ThreadTest(i)
    \/ \E i \in DOMAIN threads : ThreadIterate(i)

SpecThreads == InitApi /\ [][NextThreads]_vars

(***************************************************************************)
(* Properties of Tracker.update (checked under SpecTrack)                  *)
(***************************************************************************)
\* the track was bound to a detection by the update just made
Hit(oid) == \E p \in call'.matches : p[1] = oid

\* the ids the update just made has registered
Registered == DOMAIN objects' \ DOMAIN objects

\* the centroid of detection j of the update just made
DetCentroid(j) == Centroid(call'.detections[j].bbox)

\* the squared distance between a track, as it was before the update, and
\* detection j
Gap(oid, j) == Dist2(objects[oid].centroid, DetCentroid(j))

C5_Deregistration ==
    [][ call'.op = "update" =>
          /\ \A oid \in DOMAIN objects :
                /\ oid \notin DOMAIN objects' <=>
                      (~Hit(oid) /\ objects[oid].disappeared + 1 > max_disappeared)
                /\ (oid \in DOMAIN objects' /\ ~Hit(oid)) =>
                      objects'[oid].disappeared = objects[oid].disappeared + 1
          /\ \A oid \in DOMAIN objects' : objects'[oid].disappeared <= max_disappeared
          /\ empty_run' > max_disappeared => DOMAIN objects' = {}
          /\ \A old \in DOMAIN retired' :
                /\ old \notin DOMAIN objects'
                /\ \A oid \in Registered : oid > old
      ]_vars

\* C5 witness: a detection at the last centroid of a deregistered track was
\* registered under a larger id, and that track has since survived
\* max_disappeared unmatched frames
C5_Witness ==
    /\ call.op = "update"
    /\ \E oid \in DOMAIN objects, old \in DOMAIN retired :
          /\ objects[oid].centroid = retired[old]
          /\ oid > old
          /\ objects[oid].persistence = 1
          /\ objects[oid].disappeared = max_disappeared

\* C6: ids are never reused: a track registered by an update gets an id that
\* is at least the next_id of before, hence larger than every id in the map
\* or deregistered so far; every id in the map is smaller than next_id; and a
\* deregistered id is never in the map.
C6_IdsNeverReused ==
    [][ /\ \A oid \in Registered :
              /\ oid >= next_id
              /\ \A old \in DOMAIN objects \cup DOMAIN retired : oid > old
        /\ next_id' >= next_id
        /\ \A oid \in DOMAIN objects' \cup DOMAIN retired' : oid < next_id'
        /\ DOMAIN objects' \cap DOMAIN retired' = {}
      ]_vars

\* C6 witness: tracks have been deregistered, and the newest track holds the
\* last id issued
C6_Witness ==
    /\ DOMAIN retired # {}
    /\ next_id = MaxId
    /\ next_id - 1 \in DOMAIN objects
    /\ Cardinality(DOMAIN objects) + Cardinality(DOMAIN retired) = next_id

\* C7: the pairs an update commits are one-to-one (no track in two pairs, no
\* detection in two pairs) and each pair joins a track and a detection whose
\* centroids are at most max_distance apart; the matched tracks, and only
\* they, take their detection's centroid and gain one persistence.
C7_OneToOneBounded ==
    [][ call'.op = "update" =>
          /\ \A p, q \in call'.matches : (p[1] = q[1]) <=> (p[2] = q[2])
          /\ \A p \in call'.matches :
                /\ p[1] \in DOMAIN objects
                /\ p[2] \in DOMAIN call'.detections
                /\ Gap(p[1], p[2]) <= max_distance * max_distance
                /\ p[1] \in DOMAIN objects'
                /\ objects'[p[1]].centroid = DetCentroid(p[2])
                /\ objects'[p[1]].persistence = objects[p[1]].persistence + 1
          /\ \A oid \in DOMAIN objects \cap DOMAIN objects' :
                ~Hit(oid) => objects'[oid].persistence = objects[oid].persistence
      ]_vars

\* C7 witness: an update that committed two pairs, the two tracks now at
\* the centroids of their detections
C7_Witness ==
    /\ call.op = "update"
    /\ Cardinality(call.matches) = 2
    /\ \A p \in call.matches :
          /\ objects[p[1]].centroid = Centroid(call.detections[p[2]].bbox)
          /\ objects[p[1]].persistence >= 2

\* detection j is the detection nearest to the track (the first such)
Nearest(oid, j) ==
    \A k \in DOMAIN call'.detections :
        /\ Gap(oid, j) <= Gap(oid, k)
        /\ k < j => Gap(oid, j) < Gap(oid, k)

C25_TrackInvariants ==
    [][ call'.op = "update" =>
          /\ \A oid \in DOMAIN objects' :
                /\ objects'[oid].object_id = oid
                /\ objects'[oid].persistence >= 0
                /\ objects'[oid].disappeared >= 0
                /\ (Hit(oid) \/ oid \in Registered) => objects'[oid].disappeared = 0
          /\ \A oid \in DOMAIN objects' \cap DOMAIN objects :
                ~Hit(oid) =>
                    /\ objects'[oid].disappeared >= 1
                    /\ objects'[oid].persistence = objects[oid].persistence
      ]_vars

\* C25 witness: after an update, a track seen twice has missed the latest
\* frame and another was matched in it after a miss of its own
C25_Witness ==
    /\ call.op = "update"
    /\ \E a \in DOMAIN objects, b \in DOMAIN objects :
          /\ objects[a].disappeared = 1 /\ objects[a].persistence >= 2
          /\ objects[b].disappeared = 0 /\ objects[b].persistence >= 2
          /\ \E p \in call.matches : p[1] = b

\* C26: persistence counts consecutive matched frames: a match that follows
\* a matched (or the registration) frame adds exactly 1, a match that follows
\* a missed frame starts a new run of length 1, a registration starts at 1,
\* and nothing else changes it.
C26_ConsecutiveMatches ==
    [][ call'.op = "update" =>
          /\ \A oid \in Registered : objects'[oid].persistence = 1
          /\ \A oid \in DOMAIN objects' \cap DOMAIN objects :
                /\ ~Hit(oid) => objects'[oid].persistence = objects[oid].persistence
                /\ (Hit(oid) /\ objects[oid].disappeared = 0) =>
                      objects'[oid].persistence = objects[oid].persistence + 1
                /\ (Hit(oid) /\ objects[oid].disappeared > 0) =>
                      objects'[oid].persistence = 1
      ]_vars

\* C31: an update leaves a track it does not match as it was but for the
\* disappeared counter, which it increments by exactly 1, whether the frame
\* has detections or not (checked with the alert manager, so that
\* alert_sent is set on some tracks); and an update with no detections
\* commits no pair and issues no id.
C31_UnmatchedOnlyDisappears ==
    [][ call'.op = "update" =>
          /\ \A oid \in DOMAIN objects \cap DOMAIN objects' :
                ~Hit(oid) =>
                    /\ objects'[oid].object_id = objects[oid].object_id
                    /\ objects'[oid].centroid = objects[oid].centroid
                    /\ objects'[oid].bbox = objects[oid].bbox
                    /\ objects'[oid].persistence = objects[oid].persistence
                    /\ objects'[oid].max_temp = objects[oid].max_temp
                    /\ objects'[oid].confidence = objects[oid].confidence
                    /\ objects'[oid].validation_type = objects[oid].validation_type
                    /\ objects'[oid].alert_sent = objects[oid].alert_sent
                    /\ objects'[oid].disappeared = objects[oid].disappeared + 1
          /\ call'.detections = <<>> =>
                /\ call'.matches = {}
                /\ next_id' = next_id
                /\ DOMAIN objects' \subseteq DOMAIN objects
      ]_vars

\* C31 witness: an update with a detection has left unmatched a confirmed
\* track whose alert was sent: it has missed one frame and kept the rest
C31_Witness ==
    /\ call.op = "update"
    /\ Len(call.detections) >= 1
    /\ \E oid \in DOMAIN objects :
          /\ \A p \in call.matches : p[1] # oid
          /\ objects[oid].disappeared = 1
          /\ objects[oid].alert_sent
          /\ objects[oid].persistence >= persistence_threshold

\* the tracks the update just made has left with disappeared = 0
Fresh == {oid \in DOMAIN objects' : objects'[oid].disappeared = 0}

\* the detections the update just made has bound to no track
Unpaired == {j \in DOMAIN call'.detections : \A p \in call'.matches : p[2] # j}

\* C36: no detection is dropped or duplicated by an update: after a call
\* with N detections exactly N tracks have disappeared = 0, one per
\* detection, the track being the one the detection was matched to or one
\* newly registered at the detection with persistence 1; and every track of
\* before the call that was not matched has disappeared >= 1 or is gone.
C36_DetectionsConserved ==
    [][ call'.op = "update" =>
          /\ Cardinality(Fresh) = Len(call'.detections)
          /\ Fresh = {p[1] : p \in call'.matches} \cup Registered
          /\ Cardinality(call'.matches) + Cardinality(Registered)
                = Len(call'.detections)
          /\ \A p \in call'.matches :
                objects'[p[1]].centroid = DetCentroid(p[2])
          /\ \A oid \in Registered : objects'[oid].persistence = 1
          /\ \A j \in Unpaired :
                Cardinality({oid \in Registered : objects'[oid].centroid = DetCentroid(j)})
                    = Cardinality({k \in Unpaired : DetCentroid(k) = DetCentroid(j)})
          /\ \A oid \in DOMAIN objects :
                ~Hit(oid) => \/ oid \notin DOMAIN objects'
                             \/ objects'[oid].disappeared >= 1
      ]_vars

\* C36 witness: an update with two detections at one centroid has matched one
\* to a track and registered the other, while a second track went unmatched
C36_Witness ==
    /\ call.op = "update"
    /\ Len(call.detections) = 2
    /\ Centroid(call.detections[1].bbox) = Centroid(call.detections[2].bbox)
    /\ Cardinality(call.matches) = 1
    /\ \E oid \in DOMAIN objects :
          /\ oid = next_id - 1
          /\ objects[oid].persistence = 1
          /\ objects[oid].disappeared = 0
    /\ \E oid \in DOMAIN objects : objects[oid].disappeared >= 1

\* C37: the greedy association leaves no matchable pair unmatched: after an
\* update no track that the call marked disappeared (or deregistered) lies
\* within max_distance of a detection that the same call registered as a
\* new track.
C37_NoMatchablePairLeft ==
    [][ call'.op = "update" =>
          \A oid \in DOMAIN objects : \A j \in Unpaired :
              ~Hit(oid) => Gap(oid, j) > max_distance * max_distance
      ]_vars

(***************************************************************************)
(* Properties of AlertManager.check_and_emit (checked under SpecAlert)     *)
(***************************************************************************)
\* the ids of the payloads the last check_and_emit call returned
Emitted == {call.alerts[i].id : i \in DOMAIN call.alerts}

\* how many payloads of the last batch carry this id
PayloadsFor(oid) == Cardinality({i \in DOMAIN call.alerts : call.alerts[i].id = oid})

\* the object passes the validation filter of the configuration
PassesValidation(obj) ==
    require_validation = None \/ obj.validation_type = require_validation

\* C1: two alerts for one id are never emitted less than cooldown apart: a
\* batch holds a payload for an id that has alerted before only if at least
\* cooldown has passed since that id's last alert; and the alert_sent flag of
\* a tracked object is set exactly when its id has alerted.
C1_CooldownRespected ==
    /\ \A oid \in DOMAIN objects : objects[oid].alert_sent <=> oid \in DOMAIN last_emit
    /\ call.op = "check_and_emit" =>
          \A oid \in Emitted :
              oid \in DOMAIN call.prev_emit => now - call.prev_emit[oid] >= cooldown

\* C1 witness: a call made within the cooldown of an object that had alerted,
\* and is still confirmed, returned nothing for it
C1_Witness ==
    /\ call.op = "check_and_emit"
    /\ \E oid \in DOMAIN objects :
          /\ objects[oid].alert_sent
          /\ objects[oid].persistence >= persistence_threshold
          /\ oid \in DOMAIN call.prev_emit
          /\ now - call.prev_emit[oid] < cooldown
          /\ oid \notin Emitted

\* C2 as stated: the first call that meets an object with persistence >=
\* persistence_threshold returns exactly one payload for it; a call that meets
\* it confirmed within cooldown of its last alert returns none; a call that
\* meets it confirmed more than cooldown after its last alert returns one.
C2_Original ==
    call.op = "check_and_emit" =>
        \A oid \in DOMAIN objects :
            objects[oid].persistence >= persistence_threshold =>
                /\ oid \notin call.prev_seen => PayloadsFor(oid) = 1
                /\ (oid \in DOMAIN call.prev_emit /\ now - call.prev_emit[oid] < cooldown)
                        => PayloadsFor(oid) = 0
                /\ (oid \in DOMAIN call.prev_emit /\ now - call.prev_emit[oid] > cooldown)
                        => PayloadsFor(oid) = 1

\* C2 amended: the same for an object that also passes the validation filter
\* (no required type is configured, or its validation_type is the required
\* one): the first call that meets it confirmed and passing, that is before
\* it has ever alerted, returns exactly one payload for it; within cooldown of
\* its last alert none; more than cooldown after its last alert exactly one.
C2_FiresWhenDue ==
    call.op = "check_and_emit" =>
        \A oid \in DOMAIN objects :
            (objects[oid].persistence >= persistence_threshold
                /\ PassesValidation(objects[oid])) =>
                /\ oid \notin DOMAIN call.prev_emit => PayloadsFor(oid) = 1
                /\ (oid \in DOMAIN call.prev_emit /\ now - call.prev_emit[oid] < cooldown)
                        => PayloadsFor(oid) = 0
                /\ (oid \in DOMAIN call.prev_emit /\ now - call.prev_emit[oid] > cooldown)
                        => PayloadsFor(oid) = 1

\* C2 witness: an object that had alerted, and was met again confirmed and
\* passing more than cooldown later, got one more payload
C2_Witness ==
    /\ call.op = "check_and_emit"
    /\ \E oid \in DOMAIN objects :
          /\ oid \in DOMAIN call.prev_emit
          /\ now - call.prev_emit[oid] > cooldown
          /\ PayloadsFor(oid) = 1

\* C3: no payload is emitted for an object in probation: every payload of a
\* batch belongs to a tracked object whose persistence at that call is at
\* least persistence_threshold, and reports that persistence.
C3_NoAlertInProbation ==
    call.op = "check_and_emit" =>
        \A i \in DOMAIN call.alerts :
            /\ call.alerts[i].id \in DOMAIN objects
            /\ objects[call.alerts[i].id].persistence >= persistence_threshold
            /\ call.alerts[i].persistence = objects[call.alerts[i].id].persistence

\* C3 witness: a batch with a payload, made while another tracked object was
\* still in probation and got none
C3_Witness ==
    /\ call.op = "check_and_emit"
    /\ call.alerts # <<>>
    /\ \E oid \in DOMAIN objects :
          objects[oid].persistence < persistence_threshold /\ oid \notin Emitted

\* the place of an object id in the alert lifecycle
Phase(oid) ==
    IF oid \notin DOMAIN objects
    THEN IF oid < next_id THEN "Terminal" ELSE "Unseen"
    ELSE IF objects[oid].persistence < persistence_threshold THEN "Probation"
    ELSE IF ~objects[oid].alert_sent THEN "ConfirmedNotAlerted"
    ELSE IF call.op = "check_and_emit" /\ oid \in Emitted THEN "Alerted"
    ELSE "Cooldown"

\* the moves of the lifecycle: Unseen -> Probation -> Confirmed-Not-Alerted
\* -> Alerted -> Cooldown -> Alerted, and Terminal from any tracked phase
Forward(p, q) ==
    \/ p = q
    \/ p = "Unseen" /\ q = "Probation"
    \/ p = "Probation" /\ q \in {"ConfirmedNotAlerted", "Terminal"}
    \/ p = "ConfirmedNotAlerted" /\ q \in {"Alerted", "Terminal"}
    \/ p = "Alerted" /\ q \in {"Cooldown", "Terminal"}
    \/ p = "Cooldown" /\ q \in {"Alerted", "Terminal"}

\* C27: every step of the tracker and of the alert manager moves each object
\* id along the lifecycle only: from Unseen to Probation, from Probation to
\* Confirmed-Not-Alerted, from there to Alerted, between Alerted and Cooldown,
\* and from any tracked phase to Terminal when the tracker deregisters it; a
\* confirmed id is never in Probation again, a deregistered id stays
\* deregistered, and no batch holds a payload for a deregistered id.
C27_AlertLifecycle ==
    [][ /\ \A oid \in 0..(MaxId - 1) : Forward(Phase(oid), Phase(oid)')
        /\ call'.op = "check_and_emit" =>
              \A oid \in Emitted' : Phase(oid)' # "Terminal" ]_vars

\* C27 witness: an id that had alerted before alerted again in the last
\* batch, after another id that had alerted was deregistered
C27_Witness ==
    /\ call.op = "check_and_emit"
    /\ \E oid \in Emitted : oid \in DOMAIN call.prev_emit
    /\ \E oid \in DOMAIN last_emit : Phase(oid) = "Terminal"

\* C28: a check_and_emit call made with a required validation type returns
\* no payload for an object whose validation_type differs from it, leaves
\* that object's alert_sent flag as it was, and writes no _alert_history
\* entry for its id.
C28_MismatchIsSkipped ==
    [][ (call'.op = "check_and_emit" /\ require_validation # None) =>
          \A oid \in DOMAIN objects :
              objects[oid].validation_type # require_validation =>
                  /\ oid \notin Emitted'
                  /\ objects'[oid].alert_sent = objects[oid].alert_sent
                  /\ oid \in DOMAIN alert_history' =>
                        /\ oid \in DOMAIN alert_history
                        /\ alert_history'[oid] = alert_history[oid] ]_vars

\* C28 witness: a batch with a payload for an object of the required type,
\* made while a confirmed object of another type was tracked and got none
C28_Witness ==
    /\ call.op = "check_and_emit"
    /\ require_validation # None
    /\ call.alerts # <<>>
    /\ \E oid \in DOMAIN objects :
          /\ objects[oid].persistence >= persistence_threshold
          /\ objects[oid].validation_type # require_validation
          /\ ~objects[oid].alert_sent
          /\ oid \notin DOMAIN alert_history
          /\ oid \notin Emitted

\* C29: after a check_and_emit call no entry of _alert_history is older than
\* 2 * cooldown; every entry is the time of the last alert of its id; and an
\* id whose entry had been removed before the call is in the batch only if at
\* least cooldown has passed since its last alert.
C29_HistoryIsBounded ==
    call.op = "check_and_emit" =>
        /\ \A k \in DOMAIN alert_history :
              /\ now - alert_history[k] <= 2 * cooldown
              /\ k \in DOMAIN last_emit /\ alert_history[k] = last_emit[k]
        /\ \A oid \in Emitted :
              (oid \in DOMAIN call.prev_emit /\ oid \notin DOMAIN call.prev_history)
                  => now - call.prev_emit[oid] >= cooldown

\* C29 witness: an id that had alerted, and whose entry an earlier call had
\* removed, alerted again
C29_Witness ==
    /\ call.op = "check_and_emit"
    /\ \E oid \in Emitted :
          oid \in DOMAIN call.prev_emit /\ oid \notin DOMAIN call.prev_history

\* the ids of the payloads the check_and_emit call just made has returned
EmittedNow == {call'.alerts[i].id : i \in DOMAIN call'.alerts}

\* check_and_emit has added and removed no track, issued no id, and changed
\* no field of a track but alert_sent, which it has set on the tracks it
\* alerted on and left alone on the others
OnlyAlertSent ==
    /\ DOMAIN objects' = DOMAIN objects
    /\ next_id' = next_id
    /\ \A oid \in DOMAIN objects :
          /\ [objects'[oid] EXCEPT !.alert_sent = objects[oid].alert_sent] = objects[oid]
          /\ oid \in EmittedNow =>
                /\ objects'[oid].alert_sent
                /\ oid \in DOMAIN alert_history' /\ alert_history'[oid] = now'
          /\ oid \notin EmittedNow => objects'[oid].alert_sent = objects[oid].alert_sent

\* the history entry of the id is as it was before the call
EntryKept(oid) ==
    /\ (oid \in DOMAIN alert_history) <=> (oid \in DOMAIN alert_history')
    /\ oid \in DOMAIN alert_history => alert_history'[oid] = alert_history[oid]

\* C34 as stated: check_and_emit changes nothing of the tracks but
\* alert_sent, and for an object it skips neither alert_sent nor the history
\* entry of its id.
C34_Original ==
    [][ call'.op = "check_and_emit" =>
          /\ OnlyAlertSent
          /\ \A oid \in DOMAIN objects \ EmittedNow : EntryKept(oid)
      ]_vars

\* C34: check_and_emit changes nothing of the tracks but alert_sent; for an
\* object it skips it changes neither alert_sent nor the history entry of its
\* id, except that an entry more than twice the cooldown old is deleted.
C34_OnlyAlertSent ==
    [][ call'.op = "check_and_emit" =>
          /\ OnlyAlertSent
          /\ \A oid \in DOMAIN objects \ EmittedNow :
                \/ EntryKept(oid)
                \/ /\ oid \in DOMAIN alert_history
                   /\ oid \notin DOMAIN alert_history'
                   /\ now' - alert_history[oid] > 2 * cooldown
      ]_vars

\* C34 witness: a call has skipped a track whose alert was sent (its history
\* entry is not the call's own) and deleted the entry of its id
C34_Witness ==
    /\ call.op = "check_and_emit"
    /\ \E oid \in DOMAIN objects \ Emitted :
          /\ objects[oid].alert_sent
          /\ oid \in DOMAIN call.prev_history
          /\ oid \notin DOMAIN alert_history

(***************************************************************************)
(* Properties of FusionEngine.fuse (checked under SpecFuse)                *)
(***************************************************************************)
\* the area of a box
Area(box) == box[3] * box[4]

\* the positions of the entries of fused with this validation type
EntriesOf(type) == {i \in DOMAIN fused : fused[i].validation_type = type}

\* the optical indices that no thermal detection consumed, ascending
Unconsumed == SortedSeq(DOMAIN rgb_dets \ call.used_rgb)

\* C9: fuse returns no more entries than len(thermal) + len(optical): entry i
\* for i <= len(thermal) is the FUSED_VALIDATED or THERMAL_ONLY entry of
\* thermal detection i, and the entries after them are the RGB_ONLY entries of
\* exactly the optical detections not consumed, in input order, so a consumed
\* optical detection has no RGB_ONLY entry; the consumed ones are as many as
\* the FUSED_VALIDATED entries.
C9_OutputShape ==
    call.op = "fuse" =>
        /\ Len(fused) <= Len(thermal_dets) + Len(rgb_dets)
        /\ Len(fused) = Len(thermal_dets) + Len(Unconsumed)
        /\ \A i \in DOMAIN thermal_dets :
              /\ fused[i].validation_type \in {"FUSED_VALIDATED", "THERMAL_ONLY"}
              /\ fused[i].thermal_bbox = thermal_dets[i].bbox
        /\ \A k \in DOMAIN Unconsumed :
              /\ fused[Len(thermal_dets) + k].validation_type = "RGB_ONLY"
              /\ fused[Len(thermal_dets) + k].rgb_bbox = rgb_dets[Unconsumed[k]].bbox
        /\ call.used_rgb \subseteq DOMAIN rgb_dets
        /\ Cardinality(call.used_rgb) = Cardinality(EntriesOf("FUSED_VALIDATED"))
        /\ Cardinality(EntriesOf("RGB_ONLY")) = Len(rgb_dets) - Cardinality(call.used_rgb)

\* C9 witness: a call with two optical detections of which one was consumed
\* and the other came out as RGB_ONLY
C9_Witness ==
    /\ call.op = "fuse"
    /\ Len(rgb_dets) = 2
    /\ Cardinality(call.used_rgb) = 1
    /\ EntriesOf("FUSED_VALIDATED") # {}
    /\ Cardinality(EntriesOf("RGB_ONLY")) = 1

\* the optical indices still unused when thermal detection i is handled
Available(i) == DOMAIN rgb_dets \ {call.paired[k] : k \in 1..(i - 1)}

\* the IoU of thermal detection i, projected, with optical detection j
PairIou(i, j) == ComputeIou(ProjectThermalToRgb(thermal_dets[i].bbox), rgb_dets[j].bbox)

\* C10: thermal detections are handled in input order, each compared only
\* with the optical detections no earlier thermal detection consumed: if the
\* highest IoU among those is >= iou_threshold, the entry is FUSED_VALIDATED
\* and carries an unused optical detection of that highest IoU, which it
\* consumes; otherwise the entry is THERMAL_ONLY and nothing is consumed; and
\* no optical detection is paired with two thermal detections.
C10_GreedyPairing ==
    call.op = "fuse" =>
        /\ Len(call.paired) = Len(thermal_dets)
        /\ \A i \in DOMAIN thermal_dets :
              IF \E j \in Available(i) : IouAtLeast(PairIou(i, j), iou_threshold)
              THEN /\ fused[i].validation_type = "FUSED_VALIDATED"
                   /\ call.paired[i] \in Available(i)
                   /\ \A j \in Available(i) :
                         ~IouGreater(PairIou(i, j), PairIou(i, call.paired[i]))
                   /\ fused[i].rgb_bbox = rgb_dets[call.paired[i]].bbox
              ELSE /\ fused[i].validation_type = "THERMAL_ONLY"
                   /\ call.paired[i] = 0
        /\ \A i, k \in DOMAIN thermal_dets :
              (i # k /\ call.paired[i] # 0) => call.paired[i] # call.paired[k]
        /\ call.used_rgb = {call.paired[i] : i \in DOMAIN thermal_dets} \ {0}

\* C10 witness: two thermal detections overlap the same optical detection
\* with IoU >= iou_threshold; the first consumed it and the second, left
\* with nothing, is THERMAL_ONLY
C10_Witness ==
    /\ call.op = "fuse"
    /\ Len(thermal_dets) = 2
    /\ call.paired[1] # 0
    /\ call.paired[2] = 0
    /\ IouAtLeast(PairIou(2, call.paired[1]), iou_threshold)
    /\ fused[1].validation_type = "FUSED_VALIDATED"
    /\ fused[2].validation_type = "THERMAL_ONLY"

\* the union of the projection of thermal detection i and optical detection
\* j has no area: with sides that are not negative, both boxes have none
ZeroUnion(i, j) ==
    /\ Area(ProjectThermalToRgb(thermal_dets[i].bbox)) = 0
    /\ Area(rgb_dets[j].bbox) = 0

\* C13: the IoU computation never divides by zero (the divisor of every IoU
\* computed is positive); when the union of the two boxes has no area it
\* returns 0; and such a pair is never fused.
C13_ZeroUnionSafe ==
    call.op = "fuse" =>
        \A i \in DOMAIN thermal_dets : \A j \in DOMAIN rgb_dets :
            /\ PairIou(i, j)[2] > 0
            /\ ZeroUnion(i, j) =>
                  /\ PairIou(i, j) = <<0, 1>>
                  /\ call.paired[i] # j

\* C13 witness: a thermal detection and an optical detection, both without
\* area and at the same place, came out as THERMAL_ONLY and RGB_ONLY
C13_Witness ==
    /\ call.op = "fuse"
    /\ \E i \in DOMAIN thermal_dets : \E j \in DOMAIN rgb_dets :
          /\ ZeroUnion(i, j)
          /\ ProjectThermalToRgb(thermal_dets[i].bbox) = rgb_dets[j].bbox
          /\ fused[i].validation_type = "THERMAL_ONLY"
          /\ j \notin call.used_rgb
          /\ Cardinality(EntriesOf("RGB_ONLY")) >= 1

\* the thermal and optical confidences, in ten-thousandths, that the tag of
\* entry i of fused calls for: 0.6*t + 0.4*o, 0.7*t, 0.5*o
TagConfidence(i) ==
    IF i <= Len(thermal_dets)
    THEN IF fused[i].validation_type = "FUSED_VALIDATED"
         THEN 6 * thermal_dets[i].confidence + 4 * rgb_dets[call.paired[i]].confidence
         ELSE 7 * thermal_dets[i].confidence
    ELSE 5 * rgb_dets[Unconsumed[i - Len(thermal_dets)]].confidence

\* C11 as stated: the confidence of every entry of fused equals the weighted
\* confidence its tag calls for.
C11_Original ==
    call.op = "fuse" =>
        \A i \in DOMAIN fused : 10 * fused[i].confidence = TagConfidence(i)

\* C11 amended: the confidence of every entry of fused is the weighted
\* confidence its tag calls for, rounded to three decimals: it is within half
\* a thousandth of 0.6*t + 0.4*o for FUSED_VALIDATED, of 0.7*t for
\* THERMAL_ONLY and of 0.5*o for RGB_ONLY; thermal confidence 0.7 fused with
\* optical confidence 0.6 gives FUSED_VALIDATED with confidence 0.66.
C11_ConfidenceByTag ==
    call.op = "fuse" =>
        /\ \A i \in DOMAIN fused :
              /\ 10 * fused[i].confidence - TagConfidence(i) <= 5
              /\ TagConfidence(i) - 10 * fused[i].confidence <= 5
        /\ \A i \in DOMAIN thermal_dets :
              (/\ fused[i].validation_type = "FUSED_VALIDATED"
               /\ thermal_dets[i].confidence = 700
               /\ rgb_dets[call.paired[i]].confidence = 600)
                    => fused[i].confidence = 660

\* C11 witness: a call whose output holds the 0.7 with 0.6 pair fused to 0.66
\* and an entry whose weighted confidence had to be rounded
C11_Witness ==
    /\ call.op = "fuse"
    /\ \E i \in DOMAIN thermal_dets :
          /\ fused[i].validation_type = "FUSED_VALIDATED"
          /\ thermal_dets[i].confidence = 700
          /\ rgb_dets[call.paired[i]].confidence = 600
          /\ fused[i].confidence = 660
    /\ \E i \in DOMAIN fused : 10 * fused[i].confidence # TagConfidence(i)

(***************************************************************************)
(* Properties of FusionEngine._compute_iou (checked under SpecIou)         *)
(***************************************************************************)
\* two IoU values are the same number
IouEqual(p, q) == p[1] * q[2] = q[1] * p[2]

\* the boxes do not overlap: one lies entirely to one side of the other
Apart(a, b) ==
    \/ a[1] + a[3] <= b[1]
    \/ b[1] + b[3] <= a[1]
    \/ a[2] + a[4] <= b[2]
    \/ b[2] + b[4] <= a[2]

\* C12 as stated: the IoU is symmetric, is 1.0 for two identical boxes and
\* 0.0 for two boxes that do not overlap.
C12_Original ==
    call.op = "compute_iou" =>
        /\ IouEqual(call.iou, ComputeIou(call.box_b, call.box_a))
        /\ call.box_a = call.box_b => IouEqual(call.iou, <<1, 1>>)
        /\ Apart(call.box_a, call.box_b) => IouEqual(call.iou, <<0, 1>>)

\* C12 amended: the IoU is symmetric, is 1.0 for two identical boxes of
\* positive area (and 0.0 for two identical boxes of zero area), and is 0.0
\* for two boxes that do not overlap.
C12_IouAlgebra ==
    call.op = "compute_iou" =>
        /\ IouEqual(call.iou, ComputeIou(call.box_b, call.box_a))
        /\ (call.box_a = call.box_b /\ Area(call.box_a) > 0)
                => IouEqual(call.iou, <<1, 1>>)
        /\ (call.box_a = call.box_b /\ Area(call.box_a) = 0)
                => IouEqual(call.iou, <<0, 1>>)
        /\ Apart(call.box_a, call.box_b) => IouEqual(call.iou, <<0, 1>>)

\* C12 witness: two different boxes that overlap in part, with an IoU
\* strictly between 0 and 1 that is the same in both orders
C12_Witness ==
    /\ call.op = "compute_iou"
    /\ call.box_a # call.box_b
    /\ ~Apart(call.box_a, call.box_b)
    /\ Area(call.box_a) # Area(call.box_b)
    /\ call.iou[1] > 0
    /\ call.iou[1] < call.iou[2]
    /\ call.iou = ComputeIou(call.box_b, call.box_a)

(***************************************************************************)
(* Properties of the pipeline threads (checked under SpecPipe)             *)
(***************************************************************************)
\* the stages of the chain: detectors, fusion, tracker, alert manager
StageFaults == {"detect", "fuse", "update", "check_and_emit"}

\* the tracker state Tracker.update([]) leaves: every track has missed one
\* more frame and the expired ones are gone
AfterEmptyUpdate(objs) == Update(objs, 0, <<>>, <<>>).objects

\* C14: when a stage (detector, fusion, tracker, alert manager) raises an
\* exception on a full-chain frame, the processor thread is still alive, the
\* tracker state is what Tracker.update([]) would have left (every track's
\* disappeared counter one higher), and no alert is emitted.
C14_StageFailureIsEmptyFrame ==
    (call.op = "full" /\ call.fault \in StageFaults /\ call.raised = "Exception") =>
        /\ processor = "alive"
        /\ objects = AfterEmptyUpdate(call.before.objects)
        /\ call.alerts = <<>>
        /\ call.event = NoEvent

PairsConsistent ==
    /\ ppc = "snapshot" => p_raw = p_seq
    /\ raw_lock # "reader" => latest_raw = raw_seq

\* get_frame did not return a frame: the cache is as it was
CacheKept ==
    (call.op = "get_frame" /\ call.outcome # "frame") =>
        /\ latest_raw = call.latest_raw
        /\ raw_seq = call.raw_seq

C20_NoWorkWithoutNewFrame ==
    /\ call.op = "idle" =>
          /\ p_raw = NoFrame \/ call.seq = call.before.last_processed_seq
          /\ last_processed_seq = call.before.last_processed_seq
          /\ loop_frame = call.before.loop_frame
          /\ frame_number = call.before.frame_number
          /\ objects = call.before.objects
          /\ alert_history = call.before.alert_history
          /\ cached_tracked = call.before.cached_tracked
          /\ current_jpeg = call.before.current_jpeg
    /\ call.op \in {"fast", "full"} =>
          /\ call.raw # NoFrame
          /\ call.seq > call.before.last_processed_seq
          /\ last_processed_seq = call.seq
          /\ loop_frame = call.before.loop_frame + 1
    /\ last_processed_seq <= raw_seq

\* the processor polled again after processing frame 2 or later, with a track
\* held, and found nothing new
C20_Witness ==
    /\ call.op = "idle"
    /\ call.seq >= 2 /\ call.seq = last_processed_seq
    /\ DOMAIN objects # {}
    /\ current_jpeg # NoJpeg

\* C24: with a callback set, every non-empty batch reaches the callback as a
\* DetectionEvent whose hotspots carry the raw bbox their track was matched
\* to in the Tracker.update of that frame.
C24_HotspotRawBbox ==
    (call.op = "full" /\ call.checked /\ call.alerts # <<>> /\ on_detection # None) =>
        /\ call.event # NoEvent
        /\ \A i \in DOMAIN call.event.hotspots :
              call.event.hotspots[i].bbox = objects[call.event.hotspots[i].track_id].bbox

\* C33: a full-chain frame on which something was raised has either left
\* the tracks and the alert history as they were, or applied the whole frame:
\* the tracker update, the alert flags and history of check_and_emit, and the
\* delivery of the event of a non-empty batch to the callback.
C33_AllOrNothing ==
    (call.op = "full" /\ call.raised # "none") =>
        \/ /\ objects = call.before.objects
           /\ alert_history = call.before.alert_history
        \/ /\ call.updated /\ call.checked
           /\ (call.alerts # <<>> /\ on_detection # None) => call.event # NoEvent

(***************************************************************************)
(* Properties of ThermalDetector.detect (checked under SpecDetect)         *)
(***************************************************************************)
\* every pixel of the frame has the same intensity
IsUniform(img) == \A p \in DOMAIN img, q \in DOMAIN img : img[p] = img[q]

\* C30: detect returns no detection for a frame in which no pixel of the
\* blurred frame is above the threshold of step 2, and none for a frame of
\* one intensity, whatever the intensity, black included; the call runs to
\* its return on every frame.
C30_NothingAboveNothingDetected ==
    detect_out.called =>
        /\ detect_out.above = {} => detect_out.detections = <<>>
        /\ IsUniform(gray) => detect_out.detections = <<>>

\* C30 witness: a uniform frame brighter than the upper cut of the threshold:
\* every pixel is above it, the whole frame is one contour, and the call
\* still returned no detection
C30_Witness ==
    /\ detect_out.called
    /\ IsUniform(gray)
    /\ detect_out.above = Pixels
    /\ detect_out.binary = Pixels
    /\ detect_out.detections = <<>>


(***************************************************************************)
(* Properties of the public operations (checked under SpecApi and its    *)
(* fair variants)                                                          *)
(***************************************************************************)
\* C21: Tracker.update and AlertManager.check_and_emit run, and the frame
\* counter is incremented, on the processor thread only: while the processor
\* thread is alive no caller of a public operation is past an increment of
\* frame_number and inside _process_with_frame.
C21_ChainOnProcessorOnly ==
    \A c \in Callers : callers[c].pc = "pn_chain" => processor # "alive"

\* the positions of a caller inside get_jpeg()
InGetJpeg(c) == callers[c].pc \in {"get_jpeg", "get_jpeg_locked"}

\* the attributes of the pipeline and of the objects behind it
PipelineState ==
    <<running, latest_raw, raw_seq, last_processed_seq, loop_frame, frame_number,
      cached_tracked, current_jpeg, objects, next_id, alert_history, source_frames>>

\* the encoded-frame lock is held only around the read of get_jpeg and the
\* write of the processor, and by nobody who holds the raw-frame lock
JpegLockIsBrief ==
    /\ jpeg_lock \in {"free", "processor"} \cup Callers
    /\ jpeg_lock = "processor" <=> (processor = "alive" /\ ppc = "publishing")
    /\ \A c \in Callers : jpeg_lock = c <=> callers[c].pc = "get_jpeg_locked"
    /\ jpeg_lock # "free" => raw_lock # jpeg_lock
    /\ raw_lock = "reader" => rpc \in {"locked", "stored"}
    /\ raw_lock = "processor" => ppc \in {"locked", "read_raw"}

\* C22: the encoded-frame lock is held by a caller only between the entry of
\* the `with` block of get_jpeg and its return, and by the processor only
\* around the write of _current_jpeg, so never by a thread that is inside
\* get_frame or that is detecting, annotating or encoding a frame, and never
\* together with the raw-frame lock; a step of get_jpeg changes no attribute
\* of the pipeline; and every call of get_jpeg returns, however many callers
\* there are and whatever the reader and the processor are doing.
C22_GetJpegNeverDelayed ==
    /\ []JpegLockIsBrief
    /\ [][ \A c \in Callers :
              (callers'[c] # callers[c] /\ (InGetJpeg(c) \/ InGetJpeg(c)'))
                  => PipelineState' = PipelineState ]_vars
    /\ \A c \in Callers : InGetJpeg(c) ~> (callers[c] = Idle)

\* C22 witness: a caller is inside the `with` block of get_jpeg and the other
\* is waiting for the lock, while the reader is inside get_frame and the
\* processor is working on a frame
C22_Witness ==
    /\ \E c \in Callers : callers[c].pc = "get_jpeg_locked"
    /\ \E c \in Callers : callers[c].pc = "get_jpeg"
    /\ reader = "alive" /\ rpc = "calling"
    /\ processor = "alive" /\ ppc = "working"

\* the positions of a caller inside stop(), after the flag is cleared
InStop(c) == callers[c].pc \in {"join_reader", "join_processor"}

\* C23: a thread that checks its loop condition while the running flag is
\* clear leaves its loop: the processor at its next check, the reader at the
\* check that follows the return of get_frame; and every call of stop()
\* returns, whether or not the threads have exited.
C23_CooperativeStop ==
    /\ [][ /\ (processor = "alive" /\ ppc = "head" /\ ~running
                  /\ <<processor, ppc>>' # <<processor, ppc>>)
              => processor' = "exited"
           /\ (reader = "alive" /\ rpc = "head" /\ ~running
                  /\ <<reader, rpc>>' # <<reader, rpc>>)
              => reader' = "exited" ]_vars
    /\ \A c \in Callers : InStop(c) ~> (callers[c] = Idle)

\* C23 witness: stop() has returned while the reader is still alive, inside
\* a get_frame call that has not returned
C23_Witness ==
    /\ \A c \in Callers : callers[c] = Idle
    /\ ~running
    /\ reader = "alive" /\ rpc = "calling"
    /\ processor = "exited"

(***************************************************************************)
(* Properties of the detections handed to the tracker (checked under       *)
(* SpecHandOff)                                                            *)
(***************************************************************************)
\* C32: with no optical detection of the frame, the detections handed to
\* the tracker are one per thermal detection, in order, each tagged
\* THERMAL_ONLY and with the confidence fuse(thermal_dets, []) gives it,
\* 0.7 times the thermal confidence.
C32_HandOffAsFuse ==
    (call.op = "hand_off" /\ call.rgb = <<>>) =>
        /\ Len(fused) = Len(thermal_dets)
        /\ \A i \in DOMAIN fused :
              /\ fused[i].validation_type = "THERMAL_ONLY"
              /\ fused[i].confidence = Fuse(thermal_dets, <<>>).fused[i].confidence
              /\ fused[i].confidence = Round3(7 * thermal_dets[i].confidence, 10)

(***************************************************************************)
(* Properties of the alerts of successive full-chain frames                *)
(* (checked under SpecChain)                                               *)
(***************************************************************************)
\* C35: alerts are ordered: within one batch the payloads appear in the
\* order of the tracker's map, by ascending object_id, each carrying the
\* frame number of the batch; and across batches the alerts of one id carry
\* strictly increasing frame numbers.
C35_AlertsOrdered ==
    call.op = "chain" =>
        /\ \A i, j \in DOMAIN call.alerts :
              i < j => call.alerts[i].id < call.alerts[j].id
        /\ \A i \in DOMAIN call.alerts :
              /\ call.alerts[i].frame = frame_number
              /\ call.alerts[i].id \in DOMAIN call.prev_frames =>
                    call.prev_frames[call.alerts[i].id] < call.alerts[i].frame

\* a batch of two payloads, one of them for an id that has alerted before
C35_Witness ==
    /\ call.op = "chain"
    /\ Len(call.alerts) = 2
    /\ \E i \in DOMAIN call.alerts : call.alerts[i].id \in DOMAIN call.prev_frames

(***************************************************************************)
(* Properties of start() and stop() (checked under SpecThreads)            *)
(***************************************************************************)
\* the threads of this target that are inside the body of their loop
InLoop(target) ==
    {i \in DOMAIN threads : threads[i].target = target /\ threads[i].pc = "body"}

\* C38: after any sequence or interleaving of start() and stop() calls at
\* most one reader thread and at most one processor thread are executing
\* their loops, so that the raw-frame cache has a single writer.
C38_SingleThreads ==
    /\ Cardinality(InLoop("_camera_reader")) <= 1
    /\ Cardinality(InLoop("_capture_loop")) <= 1

(***************************************************************************)
(* Properties of the display path (checked under SpecFresh)                *)
(***************************************************************************)
\* an encoded frame made from raw frame n or a later one is in the cache
FreshJpeg(n) ==
    /\ published.ever /\ published.last = "frame" /\ published.raw >= n
    /\ current_jpeg.jpeg = "FRAME"

=============================================================================
